---- MODULE Spec2Model ----
(***************************************************************************)
(* A model of the vector pipeline of the robin backend:                    *)
(*   - FinancialDataVectorizer (alpaca_alp/data_vectorizer.py): the lazy   *)
(*     creation of the real-time index and the realtime pipeline,          *)
(*   - MarketVectorStore (rag/vector_store.py): the lazily initialised     *)
(*     index handle and the query path,                                    *)
(*   - PDFCleaner (rag/pdf_cleaner.py): the embedding client and the       *)
(*     document ingestion run.                                             *)
(* Each component has its own specification over the shared variable       *)
(* tuple; the variables of the other components stay unchanged.            *)
(* A vector is modelled by its length, None by the string "None".          *)
(***************************************************************************)
EXTENDS Integers, Sequences, FiniteSets, TLC

VARIABLES
    \* ---- FinancialDataVectorizer.ensure_index_exists ----
    fdv_index,       \* self.index: "None" or "Index"
    svc_indexes,     \* index names that exist at the index service
    en_pc,           \* per caller: where its ensure_index_exists call is
    en_attempt,      \* per caller: tenacity's attempt number
    list_calls,      \* list-indexes requests issued to the service
    create_calls,    \* create-index requests issued to the service
    en_faults,       \* timeouts and transient errors the environment injected
    \* ---- MarketVectorStore ----
    mvs_pc,          \* self.pc: "None" or "Pinecone"
    mvs_index,       \* self.index: "None" or "Index"
    initialization_task,  \* self._initialization_task: a task id, NoTask for None
    task_state,      \* per task id: "unborn", "pending", "listing", "done", "cancelled"
    kb_exists,       \* whether the pre-trained index exists at the service
    kb_pc,           \* init_knowledge_base: "call", "await_init" or "returned"
    q_pc,            \* per caller: where its search_similar_market_conditions call is
    q_task,          \* per caller: the task its wait_for awaits, or NoTask
    q_result,        \* per caller: what its last call returned
    query_vectors,   \* lengths of the vectors handed to index.query so far
    \* ---- FinancialDataVectorizer: the realtime pipeline ----
    tk_mode,         \* the entry point of the run: "main" or "process_ticker_data"
    tk_pc,           \* where the run is
    symbol,          \* the ticker symbol of the run
    batch_size,      \* self.batch_size (VECTOR_BATCH_SIZE)
    options_contracts,  \* how many contracts the fetch returned (after the limit)
    v_attempt,       \* tenacity's attempt number of vectorize_options
    v_i,             \* the loop variable i of the batch loop
    upsert_log,      \* the upsert calls so far: attempt, first position, accepted
    rt_vectors,      \* the records of the real-time index: id and metadata symbol
    c_attempt,       \* tenacity's attempt number of cleanup_vectors
    delete_log,      \* the delete calls issued so far: filter symbol, accepted
    tk_faults,       \* index calls of the run that the environment made fail
    id_day,          \* the date, as a day number, in the ids of the current attempt
    tk_run,          \* which run of the realtime pipeline this is, from 1
    \* ---- PDFCleaner: process_pdfs, process_pdf, get_ollama_embedding ----
    ing_pc,          \* where the ingestion run is
    dir_exists,      \* os.path.exists(pdf_dir)
    num_pdfs,        \* len(pdf_files)
    doc,             \* the position in pdf_files of the current pdf_file (from 1)
    pages,           \* the current document: per page, how many chunks it gives
    total_chunks,    \* process_pdfs: total_chunks
    successful_pdfs, \* process_pdfs: successful_pdfs
    failed_pdfs,     \* process_pdfs: failed_pdfs, as document positions
    all_chunks,      \* process_pdf: all_chunks, as <<page_num, chunk_index>>
    b_i,             \* process_pdf: the loop variable i of the batch loop
    b_k,             \* process_pdf: how many of all_chunks have been embedded
    vectors,         \* process_pdf: vectors of the current batch
    processed_chunks,  \* process_pdf: processed_chunks
    attempt,         \* get_ollama_embedding: attempt
    responses,       \* the provider's responses within the latest call
    delays,          \* the sleeps within the latest call
    embedding,       \* what the latest call returned (0: the empty list)
    pdf_index,       \* the records of the document index: id and vector length
    pdf_upsert_log,  \* the upsert calls so far: the vectors sent, accepted
    initial_stats,   \* total_vector_count of the first describe_index_stats
    stats_failed,    \* whether a describe_index_stats call of the run raised
    report,          \* what process_pdfs returned (<<>>: nothing yet)
    scanned,         \* the documents whose text extraction was attempted
    processed,       \* the documents process_pdf chunked: position and pages
    embedded,        \* the chunks get_ollama_embedding was called for
    skipped,         \* the chunks whose embedding failed or was rejected
    run,             \* which process_pdfs run on the directory this is (from 1)
    slept,           \* whether process_pdf has slept since its last upsert call
    \* ---- PDFCleaner: clean_text, first_pass_clean, second_pass_clean ----
    cl_pc,           \* which step of clean_text is next, or "returned"
    text,            \* the text being cleaned, as its sequence of characters
    cleaned,         \* what the calls of clean_text so far returned
    \* ---- PDFCleaner: analyze_trading_strategies, has_trading_strategy ----
    an_pc,           \* "call", "analyzed" or "returned"
    an_text,         \* the text that is classified
    results,         \* what analyze_trading_strategies returned
    has_strategy,    \* what has_trading_strategy returned
    \* ---- options_historical.fetch_all_contracts ----
    fc_pc,           \* "call", "loop", "awaiting", "returned" or "raised"
    fc_range,        \* position of the for loop in date_ranges
    fc_first,        \* the next request is the first one of its range
    page_token,      \* the local page_token
    next_token,      \* next_token of the last page of the range, None at its start
    fc_request,      \* the page request that is in flight or was sent last
    all_contracts,   \* ids of the pages whose contracts were appended
    tokens_issued,   \* page tokens the service has handed out
    status_errors    \* "Error: Status ..." lines fetch_contracts_page printed

ensure_vars == <<fdv_index, svc_indexes, en_pc, en_attempt, list_calls,
                 create_calls, en_faults>>

store_vars == <<mvs_pc, mvs_index, initialization_task, task_state, kb_exists,
                kb_pc, q_pc, q_task, q_result, query_vectors>>

ticker_vars == <<tk_mode, tk_pc, symbol, batch_size, options_contracts, v_attempt,
                 v_i, upsert_log, rt_vectors, c_attempt, delete_log, tk_faults,
                 id_day, tk_run>>

ingest_vars == <<ing_pc, dir_exists, num_pdfs, doc, pages, total_chunks,
                 successful_pdfs, failed_pdfs, all_chunks, b_i, b_k, vectors,
                 processed_chunks, attempt, responses, delays, embedding,
                 pdf_index, pdf_upsert_log, initial_stats, stats_failed, report,
                 scanned, processed, embedded, skipped, run, slept>>

clean_vars == <<cl_pc, text, cleaned>>

classify_vars == <<an_pc, an_text, results, has_strategy>>

fetch_vars == <<fc_pc, fc_range, fc_first, page_token, next_token, fc_request,
                all_contracts, tokens_issued, status_errors>>

vars == <<ensure_vars, store_vars, ticker_vars, ingest_vars, clean_vars,
         classify_vars, fetch_vars>>

\* What an action of one component leaves alone: the other components.
ensure_others == <<store_vars, ticker_vars, ingest_vars, clean_vars, classify_vars,
                   fetch_vars>>
store_others == <<ensure_vars, ticker_vars, ingest_vars, clean_vars, classify_vars,
                   fetch_vars>>
ticker_others == <<ensure_vars, store_vars, ingest_vars, clean_vars, classify_vars,
                   fetch_vars>>
ingest_others == <<ensure_vars, store_vars, ticker_vars, clean_vars, classify_vars,
                   fetch_vars>>
clean_others == <<ensure_vars, store_vars, ticker_vars, ingest_vars, classify_vars,
                   fetch_vars>>
classify_others == <<ensure_vars, store_vars, ticker_vars, ingest_vars, clean_vars,
                   fetch_vars>>
fetch_others == <<ensure_vars, store_vars, ticker_vars, ingest_vars, clean_vars,
                  classify_vars>>

None == "None"

\* None as the value of a field that otherwise holds a task id.
NoTask == 0

(***************************************************************************)
(* Bounds of the model.                                                    *)
(***************************************************************************)
NumCallers == 3
MaxFaults == 2
NumQueriers == 2
MaxTasks == 3
MaxContracts == 3
MaxBatchSize == 2
MaxUpsertFaults == 3
NumDocs == 2
MaxTotalChunks == 22
MaxFailedChunks == 1
MaxRejectedBatches == 1
MaxRuns == 2
MaxReingestChunks == 3
MaxTextLen == 4
MaxCleanings == 2
MaxPhrases == 2
MaxDays == 2
MaxTickerRuns == 2
MaxTokens == 3

Callers == 1..NumCallers
Queriers == 1..NumQueriers
Tasks == 1..MaxTasks

(***************************************************************************)
(* FinancialDataVectorizer.ensure_index_exists                             *)
(***************************************************************************)
index_name == "real-time-vectorization"

\* @retry(stop=stop_after_attempt(3), ...)
stop_after_attempt == 3

\* An exception leaves the try block of ensure_index_exists: it is logged and
\* re-raised, and tenacity either sleeps and calls again or gives up.
EnsureRaise(c) ==
    en_pc' = [en_pc EXCEPT ![c] =
                 IF en_attempt[c] < stop_after_attempt THEN "backoff" ELSE "raised"]

\* Variant: the body runs whether or not there is a handle.
HandleNotChecked == TRUE

\* `if not self.index:` the guard of the whole body.
IndexMissing == fdv_index = None

\* A call (or tenacity's next attempt) runs up to its first await: with a
\* handle present it returns at once, otherwise list_indexes is requested.
ensure_index_exists_enter(c) ==
    /\ en_pc[c] \in {"call", "backoff"}
    /\ en_attempt' = [en_attempt EXCEPT ![c] = @ + 1]
    /\ IF IndexMissing
          THEN /\ en_pc' = [en_pc EXCEPT ![c] = "list"]
               /\ list_calls' = list_calls + 1
          ELSE /\ en_pc' = [en_pc EXCEPT ![c] = "returned"]
               /\ list_calls' = list_calls
    /\ UNCHANGED <<fdv_index, svc_indexes, create_calls, en_faults>>
    /\ UNCHANGED ensure_others

\* list_indexes answers: an absent name sends create_index, a present one
\* opens the handle.
list_indexes_returns(c) ==
    /\ en_pc[c] = "list"
    /\ IF index_name \notin svc_indexes
          THEN /\ en_pc' = [en_pc EXCEPT ![c] = "create"]
               /\ create_calls' = create_calls + 1
               /\ fdv_index' = fdv_index
          ELSE /\ en_pc' = [en_pc EXCEPT ![c] = "returned"]
               /\ create_calls' = create_calls
               /\ fdv_index' = "Index"
    /\ UNCHANGED <<svc_indexes, en_attempt, list_calls, en_faults>>
    /\ UNCHANGED ensure_others

\* asyncio.TimeoutError of the 10 s wait: handled inside, the call returns.
list_indexes_times_out(c) ==
    /\ en_pc[c] = "list"
    /\ en_faults < MaxFaults
    /\ en_faults' = en_faults + 1
    /\ fdv_index' = None
    /\ en_pc' = [en_pc EXCEPT ![c] = "returned"]
    /\ UNCHANGED <<svc_indexes, en_attempt, list_calls, create_calls>>
    /\ UNCHANGED ensure_others

\* Any other exception of list_indexes.
list_indexes_raises(c) ==
    /\ en_pc[c] = "list"
    /\ en_faults < MaxFaults
    /\ en_faults' = en_faults + 1
    /\ EnsureRaise(c)
    /\ UNCHANGED <<fdv_index, svc_indexes, en_attempt, list_calls, create_calls>>
    /\ UNCHANGED ensure_others

\* create_index succeeds: the service now has the index, the handle is opened.
create_index_returns(c) ==
    /\ en_pc[c] = "create"
    /\ index_name \notin svc_indexes
    /\ svc_indexes' = svc_indexes \cup {index_name}
    /\ fdv_index' = "Index"
    /\ en_pc' = [en_pc EXCEPT ![c] = "returned"]
    /\ UNCHANGED <<en_attempt, list_calls, create_calls, en_faults>>
    /\ UNCHANGED ensure_others

\* create_index raises: the service refuses a name that exists by now, or a
\* transient error (counted as a fault).
create_index_raises(c) ==
    /\ en_pc[c] = "create"
    /\ \/ index_name \in svc_indexes /\ en_faults' = en_faults
       \/ en_faults < MaxFaults /\ en_faults' = en_faults + 1
    /\ EnsureRaise(c)
    /\ UNCHANGED <<fdv_index, svc_indexes, en_attempt, list_calls, create_calls>>
    /\ UNCHANGED ensure_others

\* asyncio.TimeoutError of the 30 s wait: the request may or may not have been
\* carried out by the service; the handle is reset and the call returns.
create_index_times_out(c) ==
    /\ en_pc[c] = "create"
    /\ en_faults < MaxFaults
    /\ en_faults' = en_faults + 1
    /\ svc_indexes' \in {svc_indexes, svc_indexes \cup {index_name}}
    /\ fdv_index' = None
    /\ en_pc' = [en_pc EXCEPT ![c] = "returned"]
    /\ UNCHANGED <<en_attempt, list_calls, create_calls>>
    /\ UNCHANGED ensure_others

ensure_index_exists(c) ==
    \/ ensure_index_exists_enter(c)
    \/ list_indexes_returns(c)
    \/ list_indexes_times_out(c)
    \/ list_indexes_raises(c)
    \/ create_index_returns(c)
    \/ create_index_raises(c)
    \/ create_index_times_out(c)

\* FinancialDataVectorizer.__init__; the index does not exist yet or does.
StartEnsure ==
    /\ fdv_index = None
    /\ svc_indexes \in {{}, {index_name}}
    /\ en_pc = [c \in Callers |-> "call"]
    /\ en_attempt = [c \in Callers |-> 0]
    /\ list_calls = 0
    /\ create_calls = 0
    /\ en_faults = 0

(***************************************************************************)
(* The embedding provider (Ollama /api/embeddings): one response to one    *)
(* request. An http response carries a status and the length of the        *)
(* "embedding" list of its JSON body (-1: the body has no such key); an    *)
(* exception is a network error or a timeout of the request.               *)
(***************************************************************************)
\* self.embedding_dim = 768 (nomic-embed-text), the dimension of "robindocs"
embedding_dim == 768

EmbeddingLens == {-1, 0, embedding_dim - 1, embedding_dim, embedding_dim + 1}

Responses ==
    [kind : {"http"}, status : {200}, embedding : EmbeddingLens]
        \cup {[kind |-> "http", status |-> 500, embedding |-> -1],
              [kind |-> "exception", status |-> 0, embedding |-> -1]}

(***************************************************************************)
(* MarketVectorStore                                                       *)
(***************************************************************************)
\* return [0.0] * 2048  # Return zero vector as fallback
fallback_dim == 2048

\* _get_embedding: the length of the vector it returns for a response. A
\* 200 body without "embedding" raises KeyError inside the try block.
get_embedding(resp) ==
    IF resp.kind = "http" /\ resp.status = 200 /\ resp.embedding # -1
        THEN resp.embedding
        ELSE fallback_dim

InFlight == {"pending", "listing"}

\* `if self.pc is None and self._initialization_task is None:`
NeedsInit == mvs_pc = None /\ initialization_task = NoTask

\* search_similar_market_conditions after _ensure_pinecone_initialized has
\* returned: without a handle it returns [], else it posts the embedding
\* request and awaits the response.
AfterEnsure(c) ==
    IF mvs_index' = None
        THEN /\ q_pc' = [q_pc EXCEPT ![c] = "returned"]
             /\ q_result' = [q_result EXCEPT ![c] = "empty"]
        ELSE /\ q_pc' = [q_pc EXCEPT ![c] = "embed"]
             /\ q_result' = q_result

\* A call runs _ensure_pinecone_initialized up to its first await: it creates
\* the initialization task when NeedsInit, and awaits the task the field
\* names, if any.
search_similar_market_conditions(c) ==
    /\ q_pc[c] \in {"idle", "returned"}
    /\ IF NeedsInit
          THEN \E t \in Tasks :
                  /\ task_state[t] = "unborn"
                  /\ \A u \in Tasks : u < t => task_state[u] # "unborn"
                  /\ initialization_task' = t
                  /\ task_state' = [task_state EXCEPT ![t] = "pending"]
          ELSE UNCHANGED <<initialization_task, task_state>>
    /\ mvs_index' = mvs_index
    /\ IF initialization_task' # NoTask
          THEN /\ q_pc' = [q_pc EXCEPT ![c] = "await_init"]
               /\ q_task' = [q_task EXCEPT ![c] = initialization_task']
               /\ q_result' = q_result
          ELSE /\ q_task' = [q_task EXCEPT ![c] = NoTask]
               /\ AfterEnsure(c)
    /\ UNCHANGED <<kb_pc, mvs_pc, kb_exists, query_vectors>>
    /\ UNCHANGED store_others

\* The task starts: the Pinecone client is constructed (or its constructor
\* raises, which the outer except turns into index = None) and list_indexes
\* is requested.
initialize_pinecone_start(t) ==
    /\ task_state[t] = "pending"
    /\ \/ /\ mvs_pc' = "Pinecone"
          /\ task_state' = [task_state EXCEPT ![t] = "listing"]
          /\ mvs_index' = mvs_index
       \/ /\ mvs_pc' = mvs_pc
          /\ task_state' = [task_state EXCEPT ![t] = "done"]
          /\ mvs_index' = None
    /\ UNCHANGED <<kb_pc, initialization_task, kb_exists, q_pc, q_task, q_result,
                   query_vectors>>
    /\ UNCHANGED store_others

\* list_indexes answers (the index is there or not), times out or raises.
initialize_pinecone_listed(t) ==
    /\ task_state[t] = "listing"
    /\ \/ mvs_index' = (IF kb_exists THEN "Index" ELSE None)
       \/ mvs_index' = None
    /\ task_state' = [task_state EXCEPT ![t] = "done"]
    /\ UNCHANGED <<kb_pc, mvs_pc, initialization_task, kb_exists, q_pc, q_task,
                   q_result, query_vectors>>
    /\ UNCHANGED store_others

\* asyncio.wait_for(task, timeout=30) returns: the task is done.
wait_for_returns(c) ==
    /\ q_pc[c] = "await_init"
    /\ task_state[q_task[c]] = "done"
    /\ initialization_task' = NoTask
    /\ mvs_index' = mvs_index
    /\ q_task' = [q_task EXCEPT ![c] = NoTask]
    /\ AfterEnsure(c)
    /\ UNCHANGED <<kb_pc, mvs_pc, task_state, kb_exists, query_vectors>>
    /\ UNCHANGED store_others

\* The 30 s of a waiter elapse first: wait_for cancels the task and raises
\* TimeoutError, which the waiter logs before it resets the field.
wait_for_times_out(c) ==
    /\ q_pc[c] = "await_init"
    /\ task_state[q_task[c]] \in InFlight
    /\ task_state' = [task_state EXCEPT ![q_task[c]] = "cancelled"]
    /\ initialization_task' = NoTask
    /\ mvs_index' = mvs_index
    /\ q_task' = [q_task EXCEPT ![c] = NoTask]
    /\ AfterEnsure(c)
    /\ UNCHANGED <<kb_pc, mvs_pc, kb_exists, query_vectors>>
    /\ UNCHANGED store_others

\* The awaited task was cancelled by another waiter's timeout: wait_for
\* raises CancelledError, which no handler on the way catches (it is a
\* BaseException), so the call ends with it and returns nothing.
wait_for_cancelled(c) ==
    /\ q_pc[c] = "await_init"
    /\ task_state[q_task[c]] = "cancelled"
    /\ q_pc' = [q_pc EXCEPT ![c] = "cancelled"]
    /\ q_task' = [q_task EXCEPT ![c] = NoTask]
    /\ UNCHANGED <<kb_pc, mvs_pc, mvs_index, initialization_task, task_state,
                   kb_exists, q_result, query_vectors>>
    /\ UNCHANGED store_others

\* The provider responds; the vector _get_embedding returns goes to
\* index.query, which answers with matches or raises (always for a vector of
\* another length than the index's dimension); an exception returns [].
get_embedding_returns(c) ==
    /\ q_pc[c] = "embed"
    /\ \E resp \in Responses :
          LET query_vector == get_embedding(resp)
          IN /\ query_vectors' = query_vectors \cup {query_vector}
             /\ \/ /\ query_vector = embedding_dim
                   /\ q_result' = [q_result EXCEPT ![c] = "matches"]
                \/ q_result' = [q_result EXCEPT ![c] = "empty"]
    /\ q_pc' = [q_pc EXCEPT ![c] = "returned"]
    /\ UNCHANGED <<kb_pc, mvs_pc, mvs_index, initialization_task, task_state,
                   kb_exists, q_task>>
    /\ UNCHANGED store_others

\* init_knowledge_base (main.py): kb = MarketVectorStore() and
\* wait_for(kb._ensure_pinecone_initialized(), timeout=30), up to the first
\* await of _ensure_pinecone_initialized.
init_knowledge_base ==
    /\ kb_pc = "call"
    /\ IF NeedsInit
          THEN \E t \in Tasks :
                  /\ task_state[t] = "unborn"
                  /\ \A u \in Tasks : u < t => task_state[u] # "unborn"
                  /\ initialization_task' = t
                  /\ task_state' = [task_state EXCEPT ![t] = "pending"]
          ELSE UNCHANGED <<initialization_task, task_state>>
    /\ kb_pc' = IF initialization_task' # NoTask THEN "await_init" ELSE "returned"
    /\ UNCHANGED <<mvs_pc, mvs_index, kb_exists, q_pc, q_task, q_result,
                   query_vectors>>
    /\ UNCHANGED store_others

\* The task init_knowledge_base awaits is done: _ensure_pinecone_initialized
\* resets the field and returns, and init_knowledge_base returns kb.
init_knowledge_base_returns ==
    /\ kb_pc = "await_init"
    /\ task_state[initialization_task] = "done"
    /\ initialization_task' = NoTask
    /\ kb_pc' = "returned"
    /\ UNCHANGED <<mvs_pc, mvs_index, task_state, kb_exists, q_pc, q_task,
                   q_result, query_vectors>>
    /\ UNCHANGED store_others

\* The 30 s of the wait_for inside _ensure_pinecone_initialized elapse
\* first: the task is cancelled, TimeoutError is logged there, the field is
\* reset, and init_knowledge_base returns kb.
init_knowledge_base_inner_timeout ==
    /\ kb_pc = "await_init"
    /\ task_state[initialization_task] \in InFlight
    /\ task_state' = [task_state EXCEPT ![initialization_task] = "cancelled"]
    /\ initialization_task' = NoTask
    /\ kb_pc' = "returned"
    /\ UNCHANGED <<mvs_pc, mvs_index, kb_exists, q_pc, q_task, q_result,
                   query_vectors>>
    /\ UNCHANGED store_others

\* The 30 s of init_knowledge_base's own wait_for elapse first: it cancels
\* the call of _ensure_pinecone_initialized, whose wait_for cancels the task
\* and lets CancelledError through (`except asyncio.TimeoutError` does not
\* catch it), so `self._initialization_task = None` is not reached;
\* init_knowledge_base logs the TimeoutError and returns kb.
init_knowledge_base_outer_timeout ==
    /\ kb_pc = "await_init"
    /\ task_state[initialization_task] \in InFlight
    /\ task_state' = [task_state EXCEPT ![initialization_task] = "cancelled"]
    /\ kb_pc' = "returned"
    /\ UNCHANGED <<mvs_pc, mvs_index, initialization_task, kb_exists, q_pc,
                   q_task, q_result, query_vectors>>
    /\ UNCHANGED store_others

\* A request handler calls knowledge_base.search_similar_market_conditions:
\* knowledge_base is the store init_knowledge_base returned.
handler_search(c) ==
    /\ kb_pc = "returned"
    /\ search_similar_market_conditions(c)

(***************************************************************************)
(* FinancialDataVectorizer: the realtime pipeline                          *)
(*   main -> process_ticker_data -> ensure_index_exists, fetch,            *)
(*   vectorize_options, cleanup_vectors                                    *)
(* The pipeline's ensure_index_exists call is the call of caller           *)
(* TickerCaller of the section above.                                      *)
(***************************************************************************)
Symbols == {"AAPL", "MSFT"}

TickerCaller == 1

\* if len(options_contracts) > 300: options_contracts = options_contracts[:300]
contract_limit == 300

Min(a, b) == IF a < b THEN a ELSE b

\* ids = [f"opt_{i}_{datetime.now().strftime('%Y%m%d')}" for i in ...]: the
\* id of the record at position i, with the date the attempt read.
opt_id(i) == "opt_" \o ToString(i) \o "_" \o ToString(id_day)

\* datetime.now() when an attempt of vectorize_options builds its ids: the
\* date of the attempt before or a later one.
ReadDate == \E d \in id_day..MaxDays : id_day' = d

\* batch = vectors[i:i + self.batch_size], as the positions it holds.
Batch(i) == i .. (Min(i + batch_size, options_contracts) - 1)

\* index.upsert(vectors=batch): insert or replace by id.
Upserted(index, batch, sym) ==
    {r \in index : r.id \notin {opt_id(k) : k \in batch}}
        \cup {[id |-> opt_id(k), symbol |-> sym] : k \in batch}

\* index.query(..., filter={'symbol': symbol}): the records it can match
Query(index, sym) == {r \in index : r.symbol = sym}

\* Variant: the delete request leaves the records where they are.
DeletedNothing(index, sym) == index

\* index.delete(filter={'symbol': symbol})
Deleted(index, sym) == {r \in index : r.symbol # sym}

\* An exception leaves process_ticker_data (logged and re-raised): a direct
\* call ends with it, main's handler goes on to cleanup_vectors(symbol).
TickerRaise ==
    /\ tk_pc' = IF tk_mode = "main" THEN "cleanup" ELSE "raised"
    /\ c_attempt' = IF tk_mode = "main" THEN 1 ELSE c_attempt

\* After ensure_index_exists: its exception ends process_ticker_data; else
\* fetch_all_contracts is awaited, which raises or returns the contracts,
\* cut to the first 300; the descriptions and the metadata are built and
\* vectorize_options is called.
process_ticker_data_fetch ==
    /\ tk_pc = "ensure"
    /\ en_pc[TickerCaller] \in {"returned", "raised"}
    /\ \/ /\ en_pc[TickerCaller] = "raised"
          /\ TickerRaise
          /\ UNCHANGED <<options_contracts, v_attempt, id_day>>
       \/ /\ en_pc[TickerCaller] = "returned"
          /\ TickerRaise
          /\ UNCHANGED <<options_contracts, v_attempt, id_day>>
       \/ /\ en_pc[TickerCaller] = "returned"
          /\ \E n \in 0..MaxContracts :
                options_contracts' = Min(n, contract_limit)
          /\ tk_pc' = "vectorize"
          /\ v_attempt' = 1
          /\ ReadDate
          /\ c_attempt' = c_attempt
    /\ UNCHANGED <<tk_run, tk_mode, symbol, batch_size, v_i, upsert_log, rt_vectors,
                   delete_log, tk_faults>>
    /\ UNCHANGED ticker_others

\* Variant: the retry goes on with the batch that failed.
VectorizeRaiseResume ==
    IF v_attempt < stop_after_attempt
        THEN /\ v_attempt' = v_attempt + 1
             /\ v_i' = v_i
             /\ ReadDate
             /\ tk_pc' = tk_pc
             /\ c_attempt' = c_attempt
        ELSE /\ TickerRaise
             /\ UNCHANGED <<v_attempt, v_i, id_day>>

\* The exception of an upsert leaves vectorize_options (logged, re-raised):
\* tenacity calls the function again from the first batch, up to 3 attempts,
\* and then raises into process_ticker_data.
VectorizeRaise ==
    IF v_attempt < stop_after_attempt
        THEN /\ v_attempt' = v_attempt + 1
             /\ v_i' = 0
             /\ ReadDate
             /\ tk_pc' = tk_pc
             /\ c_attempt' = c_attempt
        ELSE /\ TickerRaise
             /\ UNCHANGED <<v_attempt, v_i, id_day>>

\* The call self.index.upsert(vectors=batch) of the run, as the log keeps it:
\* the attempt, the first position and the ids of the batch, and whether the
\* index accepted it.
UpsertRequest(accepted) ==
    [run |-> tk_run, attempt |-> v_attempt, i |-> v_i, day |-> id_day,
     ids |-> {opt_id(k) : k \in Batch(v_i)}, ok |-> accepted]

\* One pass of the batch loop: self.index.upsert(vectors=batch). Without a
\* handle the call raises AttributeError; the index accepts or rejects it.
vectorize_options_upsert ==
    /\ tk_pc = "vectorize"
    /\ v_i < options_contracts
    /\ \/ /\ fdv_index # None
          /\ rt_vectors' = Upserted(rt_vectors, Batch(v_i), symbol)
          /\ upsert_log' = Append(upsert_log, UpsertRequest(TRUE))
          /\ v_i' = v_i + batch_size
          /\ UNCHANGED <<tk_pc, v_attempt, c_attempt, tk_faults, id_day>>
       \/ /\ fdv_index # None
          /\ tk_faults < MaxUpsertFaults
          /\ tk_faults' = tk_faults + 1
          /\ upsert_log' = Append(upsert_log, UpsertRequest(FALSE))
          /\ VectorizeRaise
          /\ UNCHANGED rt_vectors
       \/ /\ fdv_index = None
          /\ VectorizeRaise
          /\ UNCHANGED <<rt_vectors, upsert_log, tk_faults>>
    /\ UNCHANGED <<tk_run, tk_mode, symbol, batch_size, options_contracts, delete_log>>
    /\ UNCHANGED ticker_others

\* vectorize_options has returned (None): `await self.vectorize_options(...)`
\* awaits a value that is no awaitable, which raises TypeError. The rest of
\* process_ticker_data's try block (stats, backup file, cleanup_vectors) is
\* never reached.
process_ticker_data_await ==
    /\ tk_pc = "vectorize"
    /\ v_i >= options_contracts
    /\ TickerRaise
    /\ UNCHANGED <<tk_mode, symbol, batch_size, options_contracts, v_attempt, v_i,
                   upsert_log, rt_vectors, delete_log, tk_faults, id_day, tk_run>>
    /\ UNCHANGED ticker_others

\* An exception leaves cleanup_vectors: tenacity calls again, up to 3
\* attempts, and then raises out of main's handler.
CleanupRaise ==
    IF c_attempt < stop_after_attempt
        THEN c_attempt' = c_attempt + 1 /\ tk_pc' = tk_pc
        ELSE c_attempt' = c_attempt /\ tk_pc' = "raised"

\* main's handler: cleanup_vectors(symbol), one attempt:
\* self.index.delete(filter={'symbol': symbol}); then main re-raises.
cleanup_vectors ==
    /\ tk_pc = "cleanup"
    /\ \/ /\ fdv_index # None
          /\ rt_vectors' = Deleted(rt_vectors, symbol)
          /\ delete_log' = Append(delete_log, [symbol |-> symbol, ok |-> TRUE])
          /\ tk_pc' = "raised"
          /\ UNCHANGED <<c_attempt, tk_faults>>
       \/ /\ fdv_index # None
          /\ tk_faults < MaxUpsertFaults
          /\ tk_faults' = tk_faults + 1
          /\ delete_log' = Append(delete_log, [symbol |-> symbol, ok |-> FALSE])
          /\ CleanupRaise
          /\ UNCHANGED rt_vectors
       \/ /\ fdv_index = None
          /\ CleanupRaise
          /\ UNCHANGED <<rt_vectors, delete_log, tk_faults>>
    /\ UNCHANGED <<tk_mode, symbol, batch_size, options_contracts, v_attempt, v_i,
                   upsert_log, id_day, tk_run>>
    /\ UNCHANGED ticker_others

\* main is run again, for any symbol: a new process with a new vectorizer
\* (no handle yet), against the same index service, on the same day or a
\* later one.
main_again ==
    /\ tk_pc = "raised"
    /\ tk_run < MaxTickerRuns
    /\ tk_run' = tk_run + 1
    /\ tk_pc' = "ensure"
    /\ symbol' \in Symbols
    /\ options_contracts' = 0
    /\ v_attempt' = 0
    /\ v_i' = 0
    /\ c_attempt' = 0
    /\ fdv_index' = None
    /\ en_pc' = [c \in Callers |-> "call"]
    /\ en_attempt' = [c \in Callers |-> 0]
    /\ UNCHANGED <<tk_mode, batch_size, upsert_log, rt_vectors, delete_log,
                   tk_faults, id_day>>
    /\ UNCHANGED <<svc_indexes, list_calls, create_calls, en_faults>>
    /\ UNCHANGED <<store_vars, ingest_vars, clean_vars, classify_vars, fetch_vars>>

(***************************************************************************)
(* PDFCleaner: the ingestion run                                           *)
(*   process_pdfs -> process_pdf -> get_ollama_embedding, index.upsert     *)
(* A document is given by its pages, a page by the number of chunks that   *)
(* clean_text and split_into_chunks make of it (0: nothing is left of the  *)
(* page). The content of a file is drawn when the run first reads it.      *)
(***************************************************************************)
DocShapes == {<<>>, <<0>>, <<1>>, <<1, 2>>, <<19, 2>>}

\* max_retries = 3
max_retries == 3

\* retry_delay = 1
retry_delay == 1

\* MAX_BATCH_SIZE = 20
MAX_BATCH_SIZE == 20

RECURSIVE PageChunks(_, _)
\* [(page_num, i) for i in range(n)], from position i on
PageChunks(page_num, n) ==
    IF n = 0 THEN <<>> ELSE Append(PageChunks(page_num, n - 1), <<page_num, n - 1>>)

RECURSIVE AllChunks(_, _)
\* all_chunks of the pages from page number page_num on (page numbers from 0)
AllChunks(pp, page_num) ==
    IF pp = <<>> THEN <<>>
    ELSE PageChunks(page_num, Head(pp)) \o AllChunks(Tail(pp), page_num + 1)

\* A chunk of the run: the document and the (page_num, chunk_index) of
\* `for page_num, chunk_index, chunk in batch`.
chunk_id(d, chunk) == <<d, chunk[1], chunk[2]>>

\* os.path.basename(pdf_path) of the document at position d of pdf_files
basename(d) == "doc" \o ToString(d) \o ".pdf"

\* Variant: the id also carries the run, as an id with a date stamp does.
vector_id_stamped(d, chunk) ==
    basename(d) \o "_p" \o ToString(chunk[1]) \o "_c" \o ToString(chunk[2])
        \o "_" \o ToString(run)

\* "id": f"{os.path.basename(pdf_path)}_p{page_num}_c{chunk_index}"
vector_id(d, chunk) ==
    basename(d) \o "_p" \o ToString(chunk[1]) \o "_c" \o ToString(chunk[2])

\* vectors.append({"id": ..., "values": embedding, "metadata": {"source":
\* pdf_path, "page": page_num + 1, "chunk_index": chunk_index, ...}}); the
\* field run tells which run built the vector.
Vector(d, chunk, e) ==
    [id |-> vector_id(d, chunk), values |-> e, source |-> d,
     page |-> chunk[1] + 1, chunk_index |-> chunk[2], run |-> run]

\* The chunk a vector was made from, by its metadata.
ChunkOf(v) == <<v.source, v.page - 1, v.chunk_index>>

\* embedding = result.get("embedding", []), as its length
BodyEmbedding(resp) == IF resp.embedding = -1 THEN 0 ELSE resp.embedding

\* Variant: any non-empty embedding is taken, whatever its length.
AnyEmbedding(e) == e # 0

\* `if embedding and len(embedding) == self.embedding_dim:`
ValidEmbedding(e) == e # 0 /\ e = embedding_dim

\* retry: a status other than 200, or an exception of the request
Transient(resp) == resp.kind = "exception" \/ resp.status # 200

\* `if attempt < max_retries - 1:`
ShouldRetry(a) == a < max_retries - 1

\* Variant: the same delay before every retry.
RetryDelayFixed(a) == retry_delay

\* await asyncio.sleep(retry_delay * (attempt + 1))
RetryDelay(a) == retry_delay * (a + 1)

\* The response that makes a call return a vector.
Good(resp) == ~Transient(resp) /\ ValidEmbedding(BodyEmbedding(resp))

\* The end of the current batch in all_chunks: all_chunks[i:i + MAX_BATCH_SIZE]
BatchEnd == Min(b_i + MAX_BATCH_SIZE, Len(all_chunks))

\* Variant: a document that failed ends the loop over pdf_files.
AfterFailedPdfBreak(d) == num_pdfs + 1

\* process_pdfs: a document that failed; the loop goes on with the next one.
AfterFailedPdf(d) == d + 1

\* Variant: the failure of a document is not caught inside the loop.
PdfFailedRaises ==
    /\ ing_pc' = "raised"
    /\ UNCHANGED <<failed_pdfs, doc>>

\* Variant: a document that failed is not put on failed_pdfs.
PdfFailedUncounted ==
    /\ failed_pdfs' = failed_pdfs
    /\ doc' = AfterFailedPdf(doc)
    /\ ing_pc' = "scan"

\* process_pdfs: failed_pdfs.append(pdf_file), then the next pdf_file.
PdfFailed ==
    /\ failed_pdfs' = Append(failed_pdfs, doc)
    /\ doc' = AfterFailedPdf(doc)
    /\ ing_pc' = "scan"

\* process_pdfs up to the document loop: the directory check and the first
\* describe_index_stats; either raises out of process_pdfs.
process_pdfs_start ==
    /\ ing_pc = "start"
    /\ \/ /\ ~dir_exists
          /\ ing_pc' = "raised"
          /\ UNCHANGED <<initial_stats, stats_failed>>
       \/ /\ dir_exists
          /\ ing_pc' = "raised"
          /\ stats_failed' = TRUE
          /\ UNCHANGED initial_stats
       \/ /\ dir_exists
          /\ ing_pc' = "scan"
          /\ initial_stats' = Cardinality(pdf_index)
          /\ UNCHANGED stats_failed
    /\ UNCHANGED <<slept, run, dir_exists, num_pdfs, doc, pages, total_chunks, successful_pdfs,
                   failed_pdfs, all_chunks, b_i, b_k, vectors, processed_chunks,
                   attempt, responses, delays, embedding, pdf_index,
                   pdf_upsert_log, report, scanned, processed, embedded, skipped>>
    /\ UNCHANGED ingest_others

\* (A file that an earlier run on the directory chunked has the same
\* content in this run.)
\* process_pdfs, one document up to the call of process_pdf: the text is
\* extracted (which may raise) and chunked to count the chunks; a document
\* without pages or without chunks has failed.
process_pdfs_scan ==
    /\ ing_pc = "scan"
    /\ doc <= num_pdfs
    /\ scanned' = scanned \cup {doc}
    /\ \E pp \in DocShapes :
          /\ total_chunks + Len(AllChunks(pp, 0)) <= MaxTotalChunks
          /\ \A p \in processed : p.doc = doc => p.pages = pp
          /\ pages' = pp
          /\ \/ PdfFailed /\ UNCHANGED total_chunks
             \/ /\ AllChunks(pp, 0) = <<>>
                /\ PdfFailed
                /\ UNCHANGED total_chunks
             \/ /\ AllChunks(pp, 0) # <<>>
                /\ total_chunks' = total_chunks + Len(AllChunks(pp, 0))
                /\ ing_pc' = "process_pdf"
                /\ UNCHANGED <<doc, failed_pdfs>>
    /\ UNCHANGED <<slept, run, dir_exists, num_pdfs, successful_pdfs, all_chunks, b_i, b_k,
                   vectors, processed_chunks, attempt, responses, delays,
                   embedding, pdf_index, pdf_upsert_log, initial_stats,
                   stats_failed, report, processed, embedded, skipped>>
    /\ UNCHANGED ingest_others

\* process_pdf up to the batch loop: the text is extracted again (an
\* exception makes process_pdf return False) and all_chunks is built.
process_pdf_extract ==
    /\ ing_pc = "process_pdf"
    /\ \/ /\ PdfFailed
          /\ UNCHANGED <<all_chunks, b_i, b_k, vectors, processed_chunks, attempt,
                         processed, slept>>
       \/ /\ all_chunks' = AllChunks(pages, 0)
          /\ processed' = processed \cup {[doc |-> doc, pages |-> pages]}
          /\ slept' = FALSE
          /\ b_i' = 0
          /\ b_k' = 0
          /\ vectors' = <<>>
          /\ processed_chunks' = 0
          /\ attempt' = 0
          /\ ing_pc' = "embed"
          /\ UNCHANGED <<doc, failed_pdfs>>
    /\ UNCHANGED <<run, dir_exists, num_pdfs, pages, total_chunks, successful_pdfs,
                   responses, delays, embedding, pdf_index, pdf_upsert_log,
                   initial_stats, stats_failed, report, scanned, embedded,
                   skipped>>
    /\ UNCHANGED ingest_others

\* process_pdf once get_ollama_embedding has returned e for the chunk at
\* position b_k: `if embedding:` the vector joins the batch; then the next
\* chunk of the batch, or the upsert of the batch.
ChunkDone(e) ==
    LET chunk == all_chunks[b_k + 1]
    IN /\ embedded' = embedded \cup {chunk_id(doc, chunk)}
       /\ IF e # 0
             THEN /\ vectors' = Append(vectors, Vector(doc, chunk, e))
                  /\ processed_chunks' = processed_chunks + 1
                  /\ skipped' = skipped
             ELSE /\ skipped' = skipped \cup {chunk_id(doc, chunk)}
                  /\ UNCHANGED <<vectors, processed_chunks>>
       /\ b_k' = b_k + 1
       /\ ing_pc' = IF b_k + 1 < BatchEnd THEN "embed" ELSE "upsert"

\* get_ollama_embedding, one pass of its attempt loop: the request is sent
\* and answered. A 200 response ends the call, with the embedding if it is
\* valid and with [] if not; any other status or an exception sleeps and
\* tries again, or returns [] after the last attempt.
get_ollama_embedding ==
    /\ ing_pc = "embed"
    /\ \E resp \in Responses :
          /\ Good(resp) \/ Cardinality(skipped) < MaxFailedChunks
          /\ responses' = IF attempt = 0 THEN <<resp>> ELSE Append(responses, resp)
          /\ IF Transient(resp) /\ ShouldRetry(attempt)
                THEN /\ delays' = Append(IF attempt = 0 THEN <<>> ELSE delays,
                                         RetryDelay(attempt))
                     /\ attempt' = attempt + 1
                     /\ slept' = TRUE
                     /\ UNCHANGED <<embedding, vectors, processed_chunks, b_k,
                                    ing_pc, embedded, skipped>>
                ELSE /\ delays' = IF attempt = 0 THEN <<>> ELSE delays
                     /\ attempt' = 0
                     /\ slept' = slept
                     /\ embedding' = IF Good(resp) THEN BodyEmbedding(resp) ELSE 0
                     /\ ChunkDone(embedding')
    /\ UNCHANGED <<run, dir_exists, num_pdfs, doc, pages, total_chunks, successful_pdfs,
                   failed_pdfs, all_chunks, b_i, pdf_index, pdf_upsert_log,
                   initial_stats, stats_failed, report, scanned, processed>>
    /\ UNCHANGED ingest_others

\* self.index.upsert(vectors=vectors, namespace=...): insert or replace by id
PdfUpserted(index, vv) ==
    {r \in index : \A k \in DOMAIN vv : vv[k].id # r.id}
        \cup {vv[k] : k \in DOMAIN vv}

Rejected == {k \in DOMAIN pdf_upsert_log : ~pdf_upsert_log[k].ok}

\* One call self.index.upsert(vectors=vectors, ...) as the log keeps it: the
\* vectors, the document and the position i of the batch in all_chunks,
\* whether process_pdf slept since its previous call, and the outcome.
UpsertCall(accepted) ==
    [vectors |-> vectors, ok |-> accepted, doc |-> doc, i |-> b_i,
     slept |-> slept]

\* process_pdf, the end of a batch: `if vectors:` the batch is upserted, and
\* a rejected upsert is logged; then the next batch, or process_pdf returns
\* True and process_pdfs counts the document as successful.
process_pdf_upsert ==
    /\ ing_pc = "upsert"
    /\ \/ /\ vectors = <<>>
          /\ UNCHANGED <<pdf_index, pdf_upsert_log, slept>>
       \/ /\ vectors # <<>>
          /\ pdf_index' = PdfUpserted(pdf_index, vectors)
          /\ pdf_upsert_log' = Append(pdf_upsert_log, UpsertCall(TRUE))
          /\ slept' = FALSE
       \/ /\ vectors # <<>>
          /\ Cardinality(Rejected) < MaxRejectedBatches
          /\ pdf_index' = pdf_index
          /\ pdf_upsert_log' = Append(pdf_upsert_log, UpsertCall(FALSE))
          /\ slept' = FALSE
    /\ IF b_i + MAX_BATCH_SIZE < Len(all_chunks)
          THEN /\ b_i' = b_i + MAX_BATCH_SIZE
               /\ vectors' = <<>>
               /\ ing_pc' = "embed"
               /\ UNCHANGED <<doc, successful_pdfs>>
          ELSE /\ successful_pdfs' = successful_pdfs + 1
               /\ doc' = doc + 1
               /\ ing_pc' = "scan"
               /\ UNCHANGED <<b_i, vectors>>
    /\ UNCHANGED <<run, dir_exists, num_pdfs, pages, total_chunks, failed_pdfs,
                   all_chunks, b_k, processed_chunks, attempt, responses, delays,
                   embedding, initial_stats, stats_failed, report, scanned,
                   processed, embedded, skipped>>
    /\ UNCHANGED ingest_others

\* process_pdfs after the document loop: the final describe_index_stats
\* (which may raise out of process_pdfs) and the report.
process_pdfs_finish ==
    /\ ing_pc = "scan"
    /\ doc > num_pdfs
    /\ \/ /\ ing_pc' = "raised"
          /\ stats_failed' = TRUE
          /\ UNCHANGED report
       \/ /\ ing_pc' = "returned"
          /\ report' = [total_pdfs |-> num_pdfs,
                        successful_pdfs |-> successful_pdfs,
                        failed_pdfs |-> Len(failed_pdfs),
                        total_chunks |-> total_chunks,
                        initial_index_stats |-> initial_stats,
                        final_index_stats |-> Cardinality(pdf_index)]
          /\ UNCHANGED stats_failed
    /\ UNCHANGED <<slept, run, dir_exists, num_pdfs, doc, pages, total_chunks, successful_pdfs,
                   failed_pdfs, all_chunks, b_i, b_k, vectors, processed_chunks,
                   attempt, responses, delays, embedding, pdf_index,
                   pdf_upsert_log, initial_stats, scanned, processed, embedded,
                   skipped>>
    /\ UNCHANGED ingest_others

\* process_pdfs is called again on the same directory and the same index
\* once a run has returned its report (explored for directories of up to
\* MaxReingestChunks chunks).
process_pdfs_again ==
    /\ ing_pc = "returned"
    /\ run < MaxRuns
    /\ total_chunks <= MaxReingestChunks
    /\ run' = run + 1
    /\ ing_pc' = "start"
    /\ doc' = 1
    /\ pages' = <<>>
    /\ total_chunks' = 0
    /\ successful_pdfs' = 0
    /\ failed_pdfs' = <<>>
    /\ all_chunks' = <<>>
    /\ b_i' = 0
    /\ b_k' = 0
    /\ vectors' = <<>>
    /\ processed_chunks' = 0
    /\ responses' = <<>>
    /\ delays' = <<>>
    /\ embedding' = 0
    /\ initial_stats' = 0
    /\ report' = <<>>
    /\ scanned' = {}
    /\ UNCHANGED <<slept, dir_exists, num_pdfs, attempt, pdf_index, pdf_upsert_log,
                   stats_failed, processed, embedded, skipped>>
    /\ UNCHANGED ingest_others


(***************************************************************************)
(* PDFCleaner: clean_text = first_pass_clean, then second_pass_clean       *)
(* A text is the sequence of its characters, a character a one-letter      *)
(* string; "s" stands for a character of the math_symbols class (such as   *)
(* sigma), "a" for a letter, "-" for the hyphen of a bullet. On texts of   *)
(* these characters the other patterns of the two passes (urls, emails,    *)
(* page numbers, headers, equations, formulas, ...) match nothing.         *)
(***************************************************************************)
Chars == {"a", " ", "s", "-"}

\* self.patterns['math_symbols']: the character class
MathSymbols == {"s"}

\* self.patterns['noise_patterns']['bullet_points']: the class [\s*-] (and
\* the bullet sign) of the first character of a bullet
BulletChars == {" ", "-"}

\* The texts of up to n characters.
Texts(n) == UNION {[1..k -> Chars] : k \in 0..n}

RECURSIVE StripLeft(_)
StripLeft(t) ==
    IF t # <<>> /\ Head(t) = " " THEN StripLeft(Tail(t)) ELSE t

RECURSIVE StripRight(_)
StripRight(t) ==
    IF t # <<>> /\ t[Len(t)] = " " THEN StripRight(SubSeq(t, 1, Len(t) - 1)) ELSE t

\* text.strip()
Strip(t) == StripRight(StripLeft(t))

RECURSIVE CollapseSpaces(_)
\* re.sub(r'\s+', ' ', text)
CollapseSpaces(t) ==
    IF Len(t) < 2 THEN t
    ELSE IF t[1] = " " /\ t[2] = " " THEN CollapseSpaces(Tail(t))
    ELSE <<t[1]>> \o CollapseSpaces(Tail(t))

\* re.sub(r'^[\s*-]\s*', '', text, flags=re.MULTILINE) on a one-line text:
\* one bullet character at the start and the white space after it go.
RemoveBullet(t) ==
    IF t # <<>> /\ Head(t) \in BulletChars THEN StripLeft(Tail(t)) ELSE t

\* first_pass_clean
FirstPassClean(t) == Strip(CollapseSpaces(RemoveBullet(t)))

\* text[:k] + ' ' + text[k:]
InsertSpace(t, k) == SubSeq(t, 1, k) \o <<" ">> \o SubSeq(t, k + 1, Len(t))

\* The body of `for match in math_matches:` for the match at start (from
\* 0) with end = start + 1, on the text as it is by now.
SpaceAround(t, start) ==
    LET before == IF start > 0 /\ t[start] # " " THEN InsertSpace(t, start) ELSE t
        end == start + 1
    IN IF end < Len(before) /\ before[end + 1] # " "
          THEN InsertSpace(before, end)
          ELSE before

\* re.finditer(self.patterns['math_symbols'], text): the starts of the
\* matches in the text the iterator was made for, those from k on.
MathMatches(t, k) == {i \in k..(Len(t) - 1) : t[i + 1] \in MathSymbols}

RECURSIVE SpaceMatches(_, _, _)
\* The loop over the matches: the iterator goes through the text it was
\* made for (t0) while the loop body rebinds text (t) to new strings, so
\* the spans are positions of t0.
SpaceMatches(t0, k, t) ==
    IF MathMatches(t0, k) = {} THEN t
    ELSE LET start == CHOOSE i \in MathMatches(t0, k) :
                          \A j \in MathMatches(t0, k) : i <= j
         IN SpaceMatches(t0, start + 1, SpaceAround(t, start))

\* second_pass_clean
SecondPassClean(t) == Strip(CollapseSpaces(SpaceMatches(t, 0, t)))

\* clean_text, first step: text = self.first_pass_clean(text)
first_pass_clean ==
    /\ cl_pc = "first_pass"
    /\ text' = FirstPassClean(text)
    /\ cl_pc' = "second_pass"
    /\ UNCHANGED cleaned
    /\ UNCHANGED clean_others

\* clean_text, second step: text = self.second_pass_clean(text); return text
second_pass_clean ==
    /\ cl_pc = "second_pass"
    /\ text' = SecondPassClean(text)
    /\ cleaned' = Append(cleaned, text')
    /\ cl_pc' = "returned"
    /\ UNCHANGED clean_others

\* clean_text is called on what clean_text returned.
clean_text_again ==
    /\ cl_pc = "returned"
    /\ Len(cleaned) < MaxCleanings
    /\ cl_pc' = "first_pass"
    /\ UNCHANGED <<text, cleaned>>
    /\ UNCHANGED clean_others

(***************************************************************************)
(* PDFCleaner: analyze_trading_strategies and has_trading_strategy         *)
(* A text is a string. The patterns are matched as re.search matches them  *)
(* under re.IGNORECASE, the terms as `term.lower() in text.lower()`.       *)
(***************************************************************************)
\* self.strategy_patterns: per category the alternatives of its pattern,
\* each alternative the words that \s+ joins.
strategy_patterns ==
    [
     fundamental |->
        {
         <<"value", "investing">>, <<"growth", "investing">>,
         <<"dividend", "growth">>, <<"quality", "factor">>,
         <<"momentum", "factor">>, <<"low", "volatility">>,
         <<"high", "yield">>, <<"defensive">>, <<"cyclical">>,
         <<"sector", "rotation">>
        },
     technical |->
        {
         <<"trend", "following">>, <<"mean", "reversion">>,
         <<"breakout", "trading">>, <<"swing", "trading">>, <<"scalping">>,
         <<"day", "trading">>, <<"position", "trading">>,
         <<"range", "trading">>
        },
     quantitative |->
        {
         <<"factor", "investing">>, <<"statistical", "arbitrage">>,
         <<"pairs", "trading">>, <<"market", "neutral">>,
         <<"long", "short">>, <<"smart", "beta">>, <<"risk", "premia">>,
         <<"alpha", "generation">>
        },
     options_basic |->
        {
         <<"covered", "call">>, <<"protective", "put">>, <<"buy", "write">>,
         <<"married", "put">>, <<"collar">>, <<"synthetic", "stock">>,
         <<"protective", "collar">>, <<"delta", "neutral">>
        },
     options_spread |->
        {
         <<"vertical", "spread">>, <<"calendar", "spread">>,
         <<"diagonal", "spread">>, <<"iron", "condor">>,
         <<"iron", "butterfly">>, <<"jade", "lizard">>,
         <<"broken", "wing", "butterfly">>, <<"theta", "positive">>
        },
     options_volatility |->
        {
         <<"straddle">>, <<"strangle">>, <<"ratio", "spread">>,
         <<"backspreads">>, <<"calendar", "ratio">>,
         <<"double", "calendar">>, <<"volatility", "arbitrage">>,
         <<"vega", "trading">>
        },
     portfolio_management |->
        {
         <<"asset", "allocation">>, <<"portfolio", "optimization">>,
         <<"risk", "parity">>, <<"tactical", "allocation">>,
         <<"strategic", "allocation">>, <<"rebalancing">>,
         <<"factor", "allocation">>, <<"correlation", "matrix">>
        },
     risk_management |->
        {
         <<"position", "sizing">>, <<"stop", "loss">>, <<"take", "profit">>,
         <<"trailing", "stop">>, <<"risk", "reward", "ratio">>,
         <<"portfolio", "hedging">>, <<"delta", "hedging">>,
         <<"gamma", "hedging">>, <<"beta", "hedging">>
        },
     market_microstructure |->
        {
         <<"order", "flow">>, <<"market", "making">>,
         <<"liquidity", "analysis">>, <<"tick", "data">>,
         <<"bid", "ask", "spread">>, <<"order", "book">>,
         <<"depth", "analysis">>, <<"market", "impact">>
        },
     quant_methods |->
        {
         <<"time", "series", "analysis">>, <<"stochastic", "calculus">>,
         <<"brownian", "motion">>, <<"monte", "carlo", "simulation">>,
         <<"numerical", "methods">>, <<"optimization">>,
         <<"machine", "learning">>, <<"kalman", "filter">>
        },
     derivatives_math |->
        {
         <<"black", "scholes">>, <<"binomial", "model">>,
         <<"trinomial", "tree">>, <<"finite", "difference">>,
         <<"partial", "differential", "equation">>, <<"ito", "calculus">>,
         <<"martingale">>, <<"wiener", "process">>
        },
     intermarket |->
        {
         <<"correlation", "analysis">>, <<"cross", "asset">>,
         <<"relative", "strength">>, <<"intermarket", "analysis">>,
         <<"asset", "class", "correlation">>, <<"rotation", "analysis">>,
         <<"cointegration">>
        },
     sentiment |->
        {
         <<"market", "sentiment">>, <<"fear", "greed">>,
         <<"put", "call", "ratio">>, <<"vix", "analysis">>,
         <<"market", "breadth">>, <<"advance", "decline">>,
         <<"tick", "index">>, <<"standard", "deviation">>
        }
    ]

\* self.technical_indicators
technical_indicators ==
    [
     trend |->
        {
         "Moving Average", "MACD", "Directional Movement", "Parabolic SAR",
         "Trend Lines", "Channels", "Fibonacci", "Ichimoku Cloud",
         "Linear Regression", "Exponential Moving Average"
        },
     momentum |->
        {
         "RSI", "Stochastic", "CCI", "Williams %R", "Rate of Change",
         "Momentum", "Relative Vigor Index", "Ultimate Oscillator",
         "Stochastic RSI", "Fisher Transform"
        },
     volume |->
        {
         "On-Balance Volume", "Volume Profile", "Money Flow Index",
         "Accumulation/Distribution", "Volume RSI", "Chaikin Money Flow",
         "Volume Weighted Average Price", "Negative Volume Index"
        },
     volatility |->
        {
         "Bollinger Bands", "ATR", "Keltner Channels", "Standard Deviation",
         "Volatility Index", "Historical Volatility", "Normalized ATR",
         "Chaikin Volatility", "Volatility Ratio", "Volatility Stop"
        },
     oscillators |->
        {
         "Detrended Price Oscillator", "Percentage Price Oscillator",
         "Chande Momentum Oscillator", "Aroon Oscillator",
         "True Strength Index"
        }
    ]

\* self.math_terms
math_terms ==
    [
     calculus |->
        {
         "derivative", "integral", "differential", "gradient",
         "partial derivative", "limit", "continuity", "convergence",
         "taylor series", "fourier series", "laplace transform",
         "complex analysis", "contour integral", "residue", "cauchy-riemann",
         "analytic function", "harmonic function", "conformal mapping",
         "vector calculus", "divergence", "curl", "line integral",
         "surface integral", "volume integral", "green theorem",
         "stokes theorem", "divergence theorem", "jacobian", "hessian",
         "tensor", "manifold", "differential form"
        },
     algebra |->
        {
         "group", "ring", "field", "vector space", "linear transformation",
         "matrix", "determinant", "eigenvalue", "eigenvector", "basis",
         "dimension", "rank", "nullity", "orthogonal", "orthonormal",
         "inner product", "outer product", "tensor product", "direct sum",
         "quotient space", "isomorphism", "homomorphism", "kernel", "image",
         "polynomial", "root", "factor", "gcd", "lcm", "modulo", "congruence"
        },
     probability |->
        {
         "probability", "distribution", "random variable", "expected value",
         "variance", "standard deviation", "correlation", "covariance",
         "normal distribution", "poisson", "binomial", "monte carlo",
         "markov chain", "stochastic process", "brownian motion",
         "martingale", "ito process", "stochastic differential equation",
         "fokker-planck", "kolmogorov equation", "ergodic", "stationary",
         "autocorrelation", "spectral density", "power spectrum",
         "fourier transform"
        }
    ]

\* self.financial_terms
financial_terms ==
    [
     greeks |->
        {
         "delta", "gamma", "theta", "vega", "rho", "vanna", "volga", "charm",
         "speed", "color", "zomma", "ultima", "vomma", "delta-gamma",
         "delta-vega", "gamma-vega", "cross-gamma"
        },
     risk_metrics |->
        {
         "alpha", "beta", "sharpe ratio", "sortino ratio",
         "information ratio", "maximum drawdown", "value at risk",
         "volatility", "correlation", "r-squared", "tracking error",
         "jensen alpha", "treynor ratio", "calmar ratio", "omega ratio",
         "ulcer index", "kurtosis", "skewness"
        },
     valuation_metrics |->
        {
         "present value", "future value", "npv", "irr", "yield", "duration",
         "convexity", "forward rate", "spot rate", "yield curve",
         "term structure", "discount factor", "annuity", "perpetuity",
         "modified duration", "key rate duration", "option adjusted spread",
         "zero coupon", "par yield", "bootstrapping"
        }
    ]

UpperCase == "ABCDEFGHIJKLMNOPQRSTUVWXYZ"
LowerCase == "abcdefghijklmnopqrstuvwxyz"

\* The characters \s matches.
WhiteSpace == {" ", "\t", "\n"}

\* The character at position i of a string, as a string.
CharAt(t, i) == SubSeq(t, i, i)

\* str.lower() of one character
LowerChar(c) ==
    IF \E k \in 1..Len(UpperCase) : CharAt(UpperCase, k) = c
       THEN CharAt(LowerCase, CHOOSE k \in 1..Len(UpperCase) : CharAt(UpperCase, k) = c)
       ELSE c

\* No lower-casing: matching that tells "Iron" from "iron".
SameCase(t) == t

RECURSIVE Lower(_)
\* str.lower(), and what re.IGNORECASE does to the text for a pattern of
\* small letters
Lower(t) ==
    IF Len(t) <= 1 THEN LowerChar(t)
    ELSE LET half == Len(t) \div 2
         IN Lower(SubSeq(t, 1, half)) \o Lower(SubSeq(t, half + 1, Len(t)))

\* term in text
Contains(t, term) ==
    \E i \in 1..(Len(t) - Len(term) + 1) : SubSeq(t, i, i + Len(term) - 1) = term

\* category.startswith(prefix)
StartsWith(t, prefix) ==
    Len(t) >= Len(prefix) /\ SubSeq(t, 1, Len(prefix)) = prefix

RECURSIVE MatchWords(_, _, _)
\* One alternative of a pattern, word \s+ word ..., matches t from i on.
MatchWords(t, i, words) ==
    LET w == Head(words)
        j == i + Len(w)
    IN /\ j - 1 <= Len(t)
       /\ SubSeq(t, i, j - 1) = w
       /\ \/ Len(words) = 1
          \/ \E k \in (j + 1)..Len(t) :
                /\ \A sp \in j..(k - 1) : CharAt(t, sp) \in WhiteSpace
                /\ MatchWords(t, k, Tail(words))

\* re.search(pattern, text, re.IGNORECASE) is not None, lt the lower-cased text
Search(pattern, lt) ==
    \E words \in pattern : \E i \in 1..Len(lt) : MatchWords(lt, i, words)

\* The if/elif chain of analyze_trading_strategies: the flag a matched
\* category sets, "none" when no branch applies.
CategoryFlag(category) ==
    IF StartsWith(category, "fundamental") THEN "fundamental_analysis"
    ELSE IF StartsWith(category, "technical") THEN "technical_analysis"
    ELSE IF StartsWith(category, "quant") THEN "quantitative_methods"
    ELSE IF StartsWith(category, "options") THEN "options_strategies"
    ELSE IF StartsWith(category, "portfolio") THEN "portfolio_management"
    ELSE IF StartsWith(category, "risk") THEN "risk_management"
    ELSE IF category \in {"quant_methods", "derivatives_math"} THEN "mathematical_trading"
    ELSE IF category \in {"intermarket", "sentiment"} THEN "market_analysis"
    ELSE "none"

\* The boolean keys of results.
Flags ==
    {"fundamental_analysis", "technical_analysis", "quantitative_methods",
     "options_strategies", "portfolio_management", "risk_management",
     "mathematical_trading", "market_analysis"}

\* Per category the terms of a table, each with its term.lower().
LowerTerms(table) ==
    [c \in DOMAIN table |-> {<<term, Lower(term)>> : term \in table[c]}]

technical_indicators_lower == LowerTerms(technical_indicators)
math_terms_lower == LowerTerms(math_terms)
financial_terms_lower == LowerTerms(financial_terms)

\* f"{category}:{term}" for the terms of a table with term.lower() in lt
Qualified(table, lt) ==
    UNION {{c \o ":" \o term[1] : term \in {term \in table[c] : Contains(lt, term[2])}} :
              c \in DOMAIN table}

\* f"finance:{term}" for the terms of a table with term.lower() in lt
Finance(table, lt) ==
    UNION {{"finance:" \o term[1] : term \in {term \in table[c] : Contains(lt, term[2])}} :
              c \in DOMAIN table}

\* results as analyze_trading_strategies sets it up
EmptyResults ==
    [flags |-> [f \in Flags |-> FALSE],
     detected_patterns |-> {},
     detected_indicators |-> {},
     mathematical_concepts |-> {}]

\* analyze_trading_strategies(text)
AnalyzeTradingStrategies(t) ==
    LET lt == Lower(t)
        patterns == {c \in DOMAIN strategy_patterns : Search(strategy_patterns[c], lt)}
        indicators == Qualified(technical_indicators_lower, lt)
    IN [flags |-> [f \in Flags |->
                     \/ \E c \in patterns : CategoryFlag(c) = f
                     \/ f = "technical_analysis" /\ indicators # {}],
        detected_patterns |-> patterns,
        detected_indicators |-> indicators,
        mathematical_concepts |->
            Qualified(math_terms_lower, lt) \cup Finance(financial_terms_lower, lt)]

\* any(strategy_info.values()): a flag that is True or a list with an element
AnyValue(r) ==
    \/ \E f \in Flags : r.flags[f]
    \/ r.detected_patterns # {}
    \/ r.detected_indicators # {}
    \/ r.mathematical_concepts # {}

\* has_trading_strategy(text)
HasTradingStrategy(t) == AnyValue(AnalyzeTradingStrategies(t))

\* strategy_info = cleaner.analyze_trading_strategies(text)
analyze_trading_strategies ==
    /\ an_pc = "call"
    /\ results' = AnalyzeTradingStrategies(an_text)
    /\ an_pc' = "analyzed"
    /\ UNCHANGED <<an_text, has_strategy>>
    /\ UNCHANGED classify_others

\* cleaner.has_trading_strategy(text)
has_trading_strategy ==
    /\ an_pc = "analyzed"
    /\ has_strategy' = HasTradingStrategy(an_text)
    /\ an_pc' = "returned"
    /\ UNCHANGED <<an_text, results>>
    /\ UNCHANGED classify_others

(***************************************************************************)
(* The specifications: one per component, the others at rest.              *)
(***************************************************************************)
IdleStore ==
    /\ mvs_pc = None
    /\ mvs_index = None
    /\ initialization_task = NoTask
    /\ task_state = [t \in Tasks |-> "unborn"]
    /\ kb_exists = TRUE
    /\ kb_pc = "returned"
    /\ q_pc = [c \in Queriers |-> "idle"]
    /\ q_task = [c \in Queriers |-> NoTask]
    /\ q_result = [c \in Queriers |-> "none"]
    /\ query_vectors = {}

\* FinancialDataVectorizer at rest.
IdleEnsure ==
    /\ fdv_index = None
    /\ svc_indexes = {}
    /\ en_pc = [c \in Callers |-> "call"]
    /\ en_attempt = [c \in Callers |-> 0]
    /\ list_calls = 0
    /\ create_calls = 0
    /\ en_faults = 0

\* MarketVectorStore.__init__; the pre-trained index exists or not.
StartStore ==
    /\ mvs_pc = None
    /\ mvs_index = None
    /\ initialization_task = NoTask
    /\ task_state = [t \in Tasks |-> "unborn"]
    /\ kb_exists \in BOOLEAN
    /\ kb_pc = "returned"
    /\ q_pc = [c \in Queriers |-> "idle"]
    /\ q_task = [c \in Queriers |-> NoTask]
    /\ q_result = [c \in Queriers |-> "none"]
    /\ query_vectors = {}

\* The realtime pipeline at rest.
IdleTicker ==
    /\ tk_mode = "main"
    /\ tk_pc = "raised"
    /\ symbol = "AAPL"
    /\ batch_size = 1
    /\ options_contracts = 0
    /\ v_attempt = 0
    /\ v_i = 0
    /\ upsert_log = <<>>
    /\ rt_vectors = {}
    /\ c_attempt = 0
    /\ delete_log = <<>>
    /\ tk_faults = 0
    /\ id_day = 1
    /\ tk_run = 1

\* A run of the realtime pipeline for a symbol starts, from main or by a
\* direct call of process_ticker_data, on a fresh vectorizer.
StartTicker ==
    /\ tk_mode \in {"main", "process_ticker_data"}
    /\ tk_pc = "ensure"
    /\ symbol \in Symbols
    /\ batch_size \in 1..MaxBatchSize
    /\ options_contracts = 0
    /\ v_attempt = 0
    /\ v_i = 0
    /\ upsert_log = <<>>
    /\ rt_vectors = {}
    /\ c_attempt = 0
    /\ delete_log = <<>>
    /\ tk_faults = 0
    /\ id_day = 1
    /\ tk_run = 1

\* PDFCleaner.__init__ and the call process_pdfs(pdf_dir): the directory
\* exists or not and lists num_pdfs PDF files.
StartIngest ==
    /\ ing_pc = "start"
    /\ dir_exists \in BOOLEAN
    /\ num_pdfs \in 0..NumDocs
    /\ doc = 1
    /\ pages = <<>>
    /\ total_chunks = 0
    /\ successful_pdfs = 0
    /\ failed_pdfs = <<>>
    /\ all_chunks = <<>>
    /\ b_i = 0
    /\ b_k = 0
    /\ vectors = <<>>
    /\ processed_chunks = 0
    /\ attempt = 0
    /\ responses = <<>>
    /\ delays = <<>>
    /\ embedding = 0
    /\ pdf_index = {}
    /\ pdf_upsert_log = <<>>
    /\ initial_stats = 0
    /\ stats_failed = FALSE
    /\ report = <<>>
    /\ scanned = {}
    /\ processed = {}
    /\ embedded = {}
    /\ skipped = {}
    /\ run = 1
    /\ slept = FALSE

\* PDFCleaner at rest.
IdleIngest ==
    /\ ing_pc = "raised"
    /\ dir_exists = FALSE
    /\ num_pdfs = 0
    /\ doc = 1
    /\ pages = <<>>
    /\ total_chunks = 0
    /\ successful_pdfs = 0
    /\ failed_pdfs = <<>>
    /\ all_chunks = <<>>
    /\ b_i = 0
    /\ b_k = 0
    /\ vectors = <<>>
    /\ processed_chunks = 0
    /\ attempt = 0
    /\ responses = <<>>
    /\ delays = <<>>
    /\ embedding = 0
    /\ pdf_index = {}
    /\ pdf_upsert_log = <<>>
    /\ initial_stats = 0
    /\ stats_failed = FALSE
    /\ report = <<>>
    /\ scanned = {}
    /\ processed = {}
    /\ embedded = {}
    /\ skipped = {}
    /\ run = 1
    /\ slept = FALSE

\* No text is being cleaned.
IdleClean ==
    /\ cl_pc = "returned"
    /\ text = <<>>
    /\ cleaned = <<>>

\* No text is being classified.
IdleClassify ==
    /\ an_pc = "returned"
    /\ an_text = ""
    /\ results = EmptyResults
    /\ has_strategy = FALSE

(***************************************************************************)
(* options_historical.fetch_all_contracts: the contracts of a symbol are   *)
(* fetched range by range and page by page.                                *)
(***************************************************************************)
\* generate_date_ranges: eight quarterly ranges, named by their position.
NumRanges == 8

date_ranges == 1..NumRanges

\* A page holds no contract or some; only the emptiness matters to the loop.
PageSizes == {0, 1}

NoRequest == [range |-> 0, first |-> TRUE, page_token |-> None]

\* A page token the service has not handed out before.
FreshToken == "token" \o ToString(tokens_issued + 1)

\* fetch_all_contracts is called: the locals before the for loop.
fetch_all_contracts ==
    /\ fc_pc = "call"
    /\ fc_pc' = "loop"
    /\ all_contracts' = 0
    /\ page_token' = None
    /\ fc_range' = 1
    /\ fc_first' = TRUE
    /\ next_token' = None
    /\ UNCHANGED <<fc_request, tokens_issued, status_errors>>
    /\ UNCHANGED fetch_others

\* fetch_contracts_page sends the request of one page; page_token is a
\* parameter of the request only when it is not None.
fetch_contracts_page ==
    /\ fc_pc = "loop"
    /\ fc_pc' = "awaiting"
    /\ fc_request' = [range |-> fc_range, first |-> fc_first,
                      page_token |-> page_token]
    /\ UNCHANGED <<fc_range, fc_first, page_token, next_token, all_contracts,
                   tokens_issued, status_errors>>
    /\ UNCHANGED fetch_others

\* `if not next_token: break`: the for loop moves to the next range, or
\* fetch_all_contracts returns after the last one. page_token is left as
\* it is.
EndOfRange ==
    /\ IF fc_range = NumRanges
       THEN fc_pc' = "returned" /\ fc_range' = fc_range
       ELSE fc_pc' = "loop" /\ fc_range' = fc_range + 1
    /\ fc_first' = TRUE
    /\ next_token' = None
    /\ UNCHANGED page_token

\* The service answers with status 200, a page of n contracts and the
\* token of the next page.
page_with_next_token(n) ==
    /\ fc_pc = "awaiting"
    /\ tokens_issued < MaxTokens
    /\ tokens_issued' = tokens_issued + 1
    /\ all_contracts' = all_contracts + n
    /\ page_token' = FreshToken
    /\ next_token' = FreshToken
    /\ fc_first' = FALSE
    /\ fc_pc' = "loop"
    /\ UNCHANGED <<fc_range, fc_request, status_errors>>
    /\ UNCHANGED fetch_others

\* The service answers with status 200, a page of n contracts and no
\* next_page_token.
last_page(n) ==
    /\ fc_pc = "awaiting"
    /\ all_contracts' = all_contracts + n
    /\ EndOfRange
    /\ UNCHANGED <<fc_request, tokens_issued, status_errors>>
    /\ UNCHANGED fetch_others

\* The service answers with a status other than 200: fetch_contracts_page
\* returns ([], None).
page_error ==
    /\ fc_pc = "awaiting"
    /\ status_errors' = status_errors + 1
    /\ EndOfRange
    /\ UNCHANGED <<fc_request, all_contracts, tokens_issued>>
    /\ UNCHANGED fetch_others

\* The request fails in the client (connection error, invalid JSON): the
\* exception leaves fetch_all_contracts.
page_raises ==
    /\ fc_pc = "awaiting"
    /\ fc_pc' = "raised"
    /\ UNCHANGED <<fc_range, fc_first, page_token, next_token, fc_request,
                   all_contracts, tokens_issued, status_errors>>
    /\ UNCHANGED fetch_others

\* No contracts are being fetched.
IdleFetch ==
    /\ fc_pc = "returned"
    /\ fc_range = 1
    /\ fc_first = TRUE
    /\ page_token = None
    /\ next_token = None
    /\ fc_request = NoRequest
    /\ all_contracts = 0
    /\ tokens_issued = 0
    /\ status_errors = 0

InitEnsure == StartEnsure /\ IdleStore /\ IdleTicker /\ IdleIngest /\ IdleClean /\ IdleClassify /\ IdleFetch

NextEnsure == \E c \in Callers : ensure_index_exists(c)

SpecEnsure == InitEnsure /\ [][NextEnsure]_vars

InitStore == StartStore /\ IdleEnsure /\ IdleTicker /\ IdleIngest /\ IdleClean /\ IdleClassify /\ IdleFetch

NextStore ==
    \/ \E c \in Queriers : search_similar_market_conditions(c)
    \/ \E t \in Tasks : initialize_pinecone_start(t)
    \/ \E t \in Tasks : initialize_pinecone_listed(t)
    \/ \E c \in Queriers : wait_for_returns(c)
    \/ \E c \in Queriers : wait_for_times_out(c)
    \/ \E c \in Queriers : wait_for_cancelled(c)
    \/ \E c \in Queriers : get_embedding_returns(c)

SpecStore == InitStore /\ [][NextStore]_vars

\* The store of the server: init_knowledge_base constructs it and makes the
\* first call of _ensure_pinecone_initialized.
StartKb ==
    /\ mvs_pc = None
    /\ mvs_index = None
    /\ initialization_task = NoTask
    /\ task_state = [t \in Tasks |-> "unborn"]
    /\ kb_exists \in BOOLEAN
    /\ kb_pc = "call"
    /\ q_pc = [c \in Queriers |-> "idle"]
    /\ q_task = [c \in Queriers |-> NoTask]
    /\ q_result = [c \in Queriers |-> "none"]
    /\ query_vectors = {}

InitKb ==
    StartKb /\ IdleEnsure /\ IdleTicker /\ IdleIngest /\ IdleClean /\ IdleClassify /\ IdleFetch

NextKb ==
    \/ init_knowledge_base
    \/ init_knowledge_base_returns
    \/ init_knowledge_base_inner_timeout
    \/ init_knowledge_base_outer_timeout
    \/ \E c \in Queriers : handler_search(c)
    \/ \E t \in Tasks : initialize_pinecone_start(t)
    \/ \E t \in Tasks : initialize_pinecone_listed(t)
    \/ \E c \in Queriers : wait_for_returns(c)
    \/ \E c \in Queriers : wait_for_times_out(c)
    \/ \E c \in Queriers : wait_for_cancelled(c)
    \/ \E c \in Queriers : get_embedding_returns(c)

SpecKb == InitKb /\ [][NextKb]_vars

InitTicker == StartTicker /\ StartEnsure /\ IdleStore /\ IdleIngest /\ IdleClean /\ IdleClassify /\ IdleFetch

NextTicker ==
    \/ ensure_index_exists(TickerCaller)
    \/ process_ticker_data_fetch
    \/ vectorize_options_upsert
    \/ process_ticker_data_await
    \/ cleanup_vectors

SpecTicker == InitTicker /\ [][NextTicker]_vars

\* Runs of the realtime pipeline one after another against the same index
\* service.
InitTickers ==
    /\ StartTicker
    /\ StartEnsure
    /\ IdleStore
    /\ IdleIngest
    /\ IdleClean
    /\ IdleClassify /\ IdleFetch

NextTickers ==
    \/ ensure_index_exists(TickerCaller)
    \/ process_ticker_data_fetch
    \/ vectorize_options_upsert
    \/ process_ticker_data_await
    \/ cleanup_vectors
    \/ main_again

SpecTickers == InitTickers /\ [][NextTickers]_vars

InitIngest == StartIngest /\ IdleEnsure /\ IdleStore /\ IdleTicker /\ IdleClean /\ IdleClassify /\ IdleFetch

NextIngest ==
    \/ process_pdfs_start
    \/ process_pdfs_scan
    \/ process_pdf_extract
    \/ get_ollama_embedding
    \/ process_pdf_upsert
    \/ process_pdfs_finish

SpecIngest == InitIngest /\ [][NextIngest]_vars

\* Runs of process_pdfs one after the other on one directory with one PDF
\* file and on one index.
InitReingest ==
    /\ StartIngest
    /\ dir_exists
    /\ num_pdfs = 1
    /\ IdleEnsure
    /\ IdleStore
    /\ IdleTicker
    /\ IdleClean /\ IdleClassify /\ IdleFetch

NextReingest ==
    \/ process_pdfs_start
    \/ process_pdfs_scan
    \/ process_pdf_extract
    \/ get_ollama_embedding
    \/ process_pdf_upsert
    \/ process_pdfs_finish
    \/ process_pdfs_again

SpecReingest == InitReingest /\ [][NextReingest]_vars

\* Calls made one after the other (each awaited before the next is made),
\* on one object per run: a FinancialDataVectorizer or a MarketVectorStore.
NoOtherEnsure(c) ==
    /\ \A d \in Callers \ {c} : en_pc[d] \in {"call", "returned", "raised"}
    /\ \A d \in Queriers : q_pc[d] = "idle"

NoOtherSearch(c) ==
    /\ \A d \in Queriers \ {c} : q_pc[d] \in {"idle", "returned", "cancelled"}
    /\ \A d \in Callers : en_pc[d] = "call"

InitReady == StartEnsure /\ StartStore /\ IdleTicker /\ IdleIngest /\ IdleClean /\ IdleClassify /\ IdleFetch

NextReady ==
    \/ \E c \in Callers : NoOtherEnsure(c) /\ ensure_index_exists(c)
    \/ \E c \in Queriers : NoOtherSearch(c) /\ search_similar_market_conditions(c)
    \/ \E t \in Tasks : initialize_pinecone_start(t)
    \/ \E t \in Tasks : initialize_pinecone_listed(t)
    \/ \E c \in Queriers : wait_for_returns(c)
    \/ \E c \in Queriers : wait_for_times_out(c)
    \/ \E c \in Queriers : get_embedding_returns(c)

SpecReady == InitReady /\ [][NextReady]_vars

\* clean_text(T) for a text T of up to MaxTextLen characters.
StartClean ==
    /\ cl_pc = "first_pass"
    /\ text \in Texts(MaxTextLen)
    /\ cleaned = <<>>

InitClean ==
    StartClean /\ IdleEnsure /\ IdleStore /\ IdleTicker /\ IdleIngest /\ IdleClassify /\ IdleFetch

NextClean ==
    \/ first_pass_clean
    \/ second_pass_clean
    \/ clean_text_again

SpecClean == InitClean /\ [][NextClean]_vars

\* The scenario text of the classifier.
IronCondorText ==
    "Iron Condor: sell 1 OTM call spread, sell 1 OTM put spread, delta neutral, positive theta"

\* Pieces of text: one that sets off each strategy category, a Greek, a
\* mathematical term, an indicator, and one that sets off nothing.
Phrases ==
    {IronCondorText, "value investing", "Swing Trading", "pairs trading",
     "covered call", "straddle", "asset allocation", "stop loss", "order flow",
     "stochastic calculus", "Black  Scholes", "cross asset", "market sentiment",
     "delta", "gradient", "RSI", "hello"}

RECURSIVE TextsOf(_)
\* The texts of up to n phrases.
TextsOf(n) ==
    IF n = 0 THEN {""}
    ELSE TextsOf(n - 1) \cup Phrases
            \cup {t \o " " \o p : t \in TextsOf(n - 1) \ {""}, p \in Phrases}

\* analyze_trading_strategies and has_trading_strategy are called on a text.
StartClassify ==
    /\ an_pc = "call"
    /\ an_text \in TextsOf(MaxPhrases)
    /\ results = EmptyResults
    /\ has_strategy = FALSE

InitClassify ==
    /\ StartClassify /\ IdleEnsure /\ IdleStore /\ IdleTicker /\ IdleIngest
    /\ IdleClean /\ IdleFetch

NextClassify ==
    \/ analyze_trading_strategies
    \/ has_trading_strategy

SpecClassify == InitClassify /\ [][NextClassify]_vars

\* fetch_all_contracts is about to be called for a symbol.
StartFetch ==
    /\ fc_pc = "call"
    /\ fc_range = 1
    /\ fc_first = TRUE
    /\ page_token = None
    /\ next_token = None
    /\ fc_request = NoRequest
    /\ all_contracts = 0
    /\ tokens_issued = 0
    /\ status_errors = 0

InitFetch ==
    /\ StartFetch /\ IdleEnsure /\ IdleStore /\ IdleTicker /\ IdleIngest
    /\ IdleClean /\ IdleClassify

NextFetch ==
    \/ fetch_all_contracts
    \/ fetch_contracts_page
    \/ \E n \in PageSizes : page_with_next_token(n)
    \/ \E n \in PageSizes : last_page(n)
    \/ page_error
    \/ page_raises

SpecFetch == InitFetch /\ [][NextFetch]_vars

(***************************************************************************)
(* C1: when ensure_index_exists is invoked concurrently by several callers *)
(* on one vectorizer, at most one create-index request is issued to the    *)
(* index service and every caller whose call has returned sees a ready     *)
(* (non-None) handle. Stated for the runs in which the environment injects *)
(* no timeout and no transient error, so that only the interleaving of the *)
(* callers decides it.                                                     *)
(***************************************************************************)
C1_OneCreateAllReady ==
    en_faults = 0 =>
        /\ create_calls <= 1
        /\ \A c \in Callers : en_pc[c] = "returned" => fdv_index = "Index"

(***************************************************************************)
(* C2: on one MarketVectorStore at most one _initialize_pinecone attempt   *)
(* is in flight (created and neither finished nor cancelled) at any time,  *)
(* and an attempt in flight is the one the task field names, so that a     *)
(* caller arriving meanwhile awaits it instead of starting a second one.   *)
(***************************************************************************)
C2_OneAttemptInFlight ==
    /\ Cardinality({t \in Tasks : task_state[t] \in InFlight}) <= 1
    /\ \A t \in Tasks : task_state[t] \in InFlight => initialization_task = t

(***************************************************************************)
(* C6: the embedding step of the query path never yields a vector of the   *)
(* wrong length: whatever the provider answers (200 with any body, another *)
(* status, an exception), every vector that                                *)
(* search_similar_market_conditions hands to index.query has the dimension *)
(* of the index, the one ingestion validates against (embedding_dim); a    *)
(* provider failure yields no vector at all.                               *)
(***************************************************************************)
C6_QueryVectorHasIndexDimension ==
    \A n \in query_vectors : n = embedding_dim

(***************************************************************************)
(* C3: for every run of the realtime pipeline for a symbol, entered at     *)
(* main or at process_ticker_data, once an upsert of the run was accepted  *)
(* a delete with filter {symbol} has been issued to the index by the time  *)
(* the run has ended, whether the run succeeded or a step of it failed.    *)
(***************************************************************************)
C3_DeleteIssuedAfterUpsert ==
    (tk_pc = "raised" /\ \E k \in DOMAIN upsert_log : upsert_log[k].ok)
        => \E d \in DOMAIN delete_log : delete_log[d].symbol = symbol

\* The first positions of the batches of range(0, len(vectors), batch_size).
BatchStarts == {i \in 0..(options_contracts - 1) : i % batch_size = 0}

(***************************************************************************)
(* C7: in a batched upsert path, here vectorize_options, when the index    *)
(* rejects one batch every later batch is still sent: once the path has    *)
(* ended, each batch that follows a rejected one was sent after the        *)
(* rejection.                                                              *)
(***************************************************************************)
C7_LaterBatchesStillSent ==
    tk_pc \in {"cleanup", "raised"} =>
        \A k \in DOMAIN upsert_log :
            ~upsert_log[k].ok =>
                \A j \in BatchStarts :
                    j > upsert_log[k].i =>
                        \E m \in DOMAIN upsert_log : m > k /\ upsert_log[m].i = j

(***************************************************************************)
(* Properties of the ingestion run (SpecIngest)                            *)
(***************************************************************************)
\* The latest call of get_ollama_embedding has returned.
CallReturned == attempt = 0 /\ responses # <<>>

AllTransient == \A k \in DOMAIN responses : Transient(responses[k])

\* C4: one call of get_ollama_embedding sends at most max_retries (3)
\* requests; after a transient failure (exception or status other than 200)
\* it sleeps and sends the next request, each sleep twice the one before;
\* and when every attempt failed the call has returned [] after exactly
\* max_retries requests.
C4_BoundedRetriesWithBackoff ==
    /\ Len(responses) <= max_retries
    /\ \A k \in 2..Len(delays) : delays[k] = 2 * delays[k - 1]
    /\ attempt > 0 => (AllTransient /\ Len(responses) = attempt
                                    /\ Len(delays) = attempt)
    /\ (CallReturned /\ AllTransient) =>
           /\ Len(responses) = max_retries
           /\ Len(delays) = max_retries - 1
           /\ embedding = 0

\* C4 witness: a call whose three requests all failed slept twice and
\* returned [].
C4_AllAttemptsFailed ==
    /\ CallReturned
    /\ AllTransient
    /\ Len(responses) = max_retries
    /\ Len(delays) = 2
    /\ delays[2] = 2 * delays[1]
    /\ embedding = 0

\* The vectors sent in the upsert calls of the run.
SentVectors ==
    UNION {{pdf_upsert_log[k].vectors[j] : j \in DOMAIN pdf_upsert_log[k].vectors} :
              k \in DOMAIN pdf_upsert_log}

SentIds == {ChunkOf(v) : v \in SentVectors}

\* C5: every vector process_pdf sends to the index, and every record of the
\* index, has exactly embedding_dim values; a chunk whose embedding was
\* refused (wrong length, empty, or no answer) is in no upsert call and has
\* no record in the index.
C5_UpsertedVectorsHaveIndexDimension ==
    /\ \A v \in SentVectors : v.values = embedding_dim
    /\ \A r \in pdf_index : r.values = embedding_dim
    /\ \A v \in DOMAIN vectors : vectors[v].values = embedding_dim
    /\ \A c \in skipped : c \notin SentIds /\ \A r \in pdf_index : ChunkOf(r) # c

\* C5 witness: the provider answered 200 with an embedding of another
\* length, the chunk was skipped, and a batch of the run was stored.
C5_WrongLengthSkipped ==
    /\ CallReturned
    /\ ~Transient(responses[Len(responses)])
    /\ BodyEmbedding(responses[Len(responses)]) \notin {0, embedding_dim}
    /\ embedding = 0
    /\ skipped # {}
    /\ pdf_index # {}
    /\ ing_pc = "returned"

\* The ids of the chunks of a chunked document.
DocChunkIds(p) ==
    {chunk_id(p.doc, AllChunks(p.pages, 0)[k]) :
        k \in DOMAIN AllChunks(p.pages, 0)}

\* C8: once process_pdf is through with a document, get_ollama_embedding
\* was called for every chunk of it and every chunk that got an embedding
\* was sent in an upsert call, whatever chunks failed before it; and every
\* document before the current one in pdf_files was read, whatever
\* documents failed before it.
C8_LaterChunksAndDocumentsProcessed ==
    /\ \A p \in processed : p.doc < doc =>
           \A c \in DocChunkIds(p) :
               /\ c \in embedded
               /\ c \notin skipped => c \in SentIds
    /\ \A d \in 1..num_pdfs : d < doc => d \in scanned

\* C8 witness: the first document failed and the second was chunked; in it
\* a chunk was skipped and a later chunk of the document was sent.
C8_ContinuedAfterFailures ==
    /\ ing_pc = "returned"
    /\ Len(failed_pdfs) > 0
    /\ failed_pdfs[1] = 1
    /\ \E p \in processed : p.doc = 2
    /\ \E c \in skipped : \E v \in SentIds :
           /\ c[1] = 2 /\ v[1] = 2
           /\ v[2] > c[2] \/ (v[2] = c[2] /\ v[3] > c[3])

RECURSIVE RejectedChunks(_)
\* The number of chunks in the rejected upsert calls among the first k.
RejectedChunks(k) ==
    IF k = 0 THEN 0
    ELSE RejectedChunks(k - 1)
           + (IF pdf_upsert_log[k].ok THEN 0 ELSE Len(pdf_upsert_log[k].vectors))

\* C9: the failed count of the returned report is the number of skipped
\* units of the run: the failed documents, the chunks whose embedding failed
\* or was refused, and the chunks of the batches whose upsert was rejected.
C9_FailedCountIsSkippedUnits ==
    ing_pc = "returned" =>
        report.failed_pdfs = Len(failed_pdfs) + Cardinality(skipped)
                               + RejectedChunks(Len(pdf_upsert_log))

C11_NullHandleFailsSoft ==
    fdv_index = None => (v_attempt <= 1 /\ c_attempt <= 1)

\* C12: search_similar_market_conditions never raises: no call ends with an
\* exception instead of a result, whatever became of the initialization.
C12_SearchNeverRaises ==
    \A c \in Queriers : q_pc[c] # "cancelled"

\* C13: a timeout of list_indexes or create_index inside
\* ensure_index_exists is retried: a call leaves its request and returns
\* without a handle only once tenacity's attempts are used up.
C13_TimeoutIsRetried ==
    [][\A c \in Callers :
          (en_pc[c] \in {"list", "create"} /\ en_pc'[c] = "returned"
                                            /\ fdv_index' = None)
              => en_attempt[c] = stop_after_attempt]_vars

PageOf(v) == <<v.source, v.page>>

\* C15: within an upsert call the chunks of one page come in increasing
\* chunk-index order, and no page has chunks in two different upsert calls.
C15_PageInOneBatch ==
    /\ \A k \in DOMAIN pdf_upsert_log :
          \A i, j \in DOMAIN pdf_upsert_log[k].vectors :
              LET vv == pdf_upsert_log[k].vectors
              IN (i < j /\ PageOf(vv[i]) = PageOf(vv[j])) => vv[i].chunk_index < vv[j].chunk_index
    /\ \A k1, k2 \in DOMAIN pdf_upsert_log :
          k1 # k2 =>
              \A i \in DOMAIN pdf_upsert_log[k1].vectors :
                  \A j \in DOMAIN pdf_upsert_log[k2].vectors :
                      PageOf(pdf_upsert_log[k1].vectors[i])
                          # PageOf(pdf_upsert_log[k2].vectors[j])

(***************************************************************************)
(* Properties of repeated ingestion (SpecReingest)                         *)
(***************************************************************************)
\* The vectors of the upsert calls the index accepted.
AcceptedVectors ==
    UNION {{pdf_upsert_log[k].vectors[j] : j \in DOMAIN pdf_upsert_log[k].vectors} :
              k \in {n \in DOMAIN pdf_upsert_log : pdf_upsert_log[n].ok}}

\* C16: the ids process_pdf gives the chunks of a document are pairwise
\* different (one id per (page, chunk index)); a later run gives a chunk
\* the id the earlier run gave it, so that after any number of runs the
\* index holds one record per chunk, under the chunk's id, and that record
\* is the one of the latest accepted upsert of the id.
C16_OneRecordPerChunkAcrossRuns ==
    LET accepted == AcceptedVectors
    IN /\ \A p \in processed :
             LET ch == AllChunks(p.pages, 0)
             IN Cardinality({vector_id(p.doc, ch[i]) : i \in DOMAIN ch}) = Len(ch)
       /\ \A r1, r2 \in pdf_index : ChunkOf(r1) = ChunkOf(r2) => r1 = r2
       /\ \A r \in pdf_index :
             /\ r.id = vector_id(r.source, <<r.page - 1, r.chunk_index>>)
             /\ r \in accepted
             /\ \A v \in accepted : v.id = r.id => v.run <= r.run

\* C16 witness: a second run has upserted a chunk again that the first run
\* had stored, and the index holds as many records as the document has
\* chunks.
C16_ChunkIngestedTwice ==
    /\ run = 2
    /\ ing_pc = "returned"
    /\ \E r \in pdf_index : \E v \in AcceptedVectors :
          v.id = r.id /\ v.run = 1 /\ r.run = 2
    /\ \E p \in processed : Cardinality(pdf_index) = Len(AllChunks(p.pages, 0))

(***************************************************************************)
(* Properties of the delete by symbol (SpecTicker)                         *)
(***************************************************************************)
\* C17: when the latest call of cleanup_vectors(symbol) has returned (its
\* delete was accepted) and nothing was upserted since, a query of the
\* index with the filter {symbol} matches no record.
C17_QueryEmptyAfterCleanup ==
    (delete_log # <<>> /\ delete_log[Len(delete_log)].ok)
        => Query(rt_vectors, delete_log[Len(delete_log)].symbol) = {}

\* C17 witness: records of the symbol were upserted and the delete that
\* followed was accepted.
C17_DeletedWhatWasUpserted ==
    /\ \E k \in DOMAIN upsert_log : upsert_log[k].ok
    /\ delete_log # <<>>
    /\ delete_log[Len(delete_log)].ok
    /\ delete_log[Len(delete_log)].symbol = symbol
    /\ tk_pc = "raised"

(***************************************************************************)
(* Properties of the batch loop of process_pdf (SpecIngest)                *)
(***************************************************************************)
\* The upsert calls process_pdf made for one document are consecutive
\* batches: at most MAX_BATCH_SIZE vectors each, cut at multiples of
\* MAX_BATCH_SIZE, in the order of all_chunks, no vector in two calls.
BatchesPartition ==
    /\ \A k \in DOMAIN pdf_upsert_log :
          /\ Len(pdf_upsert_log[k].vectors) <= MAX_BATCH_SIZE
          /\ pdf_upsert_log[k].i % MAX_BATCH_SIZE = 0
    /\ \A k1, k2 \in DOMAIN pdf_upsert_log :
          (k1 < k2 /\ pdf_upsert_log[k1].doc = pdf_upsert_log[k2].doc) =>
              /\ pdf_upsert_log[k1].i < pdf_upsert_log[k2].i
              /\ \A a \in DOMAIN pdf_upsert_log[k1].vectors :
                    \A b \in DOMAIN pdf_upsert_log[k2].vectors :
                        pdf_upsert_log[k1].vectors[a].id
                            # pdf_upsert_log[k2].vectors[b].id

\* C18: the upsert calls of a document are consecutive batches of at most
\* the batch size that keep the input order and hold every vector once, and
\* between the call for one batch and the call for the next the sender has
\* slept.
C18_ConsecutiveBatchesWithDelay ==
    /\ BatchesPartition
    /\ \A k1, k2 \in DOMAIN pdf_upsert_log :
          (k1 < k2 /\ pdf_upsert_log[k1].doc = pdf_upsert_log[k2].doc) =>
              pdf_upsert_log[k2].slept

(***************************************************************************)
(* Properties of clean_text (SpecClean)                                    *)
(***************************************************************************)
\* C19: clean_text applied to what clean_text returned returns the same
\* text.
C19_CleanTextIdempotent ==
    Len(cleaned) >= 2 => cleaned[2] = cleaned[1]

\* C20: in the text second_pass_clean returns, every character of the
\* math_symbols class has exactly one space before it unless it is the
\* first character, and exactly one space after it unless it is the last.
C20_SymbolsSpaced ==
    cl_pc = "returned" =>
        \A i \in DOMAIN text :
            text[i] \in MathSymbols =>
                /\ i > 1 => text[i - 1] = " "
                /\ i > 2 => text[i - 2] # " "
                /\ i < Len(text) => text[i + 1] = " "
                /\ i < Len(text) - 1 => text[i + 2] # " "

(***************************************************************************)
(* Properties of the classifier (SpecClassify)                             *)
(***************************************************************************)
\* C22: classifying the Iron Condor text yields has_strategy = true,
\* detected patterns that include options_spread, and detected terms that
\* include delta and theta.
C22_IronCondorClassified ==
    (an_pc = "returned" /\ an_text = IronCondorText) =>
        /\ has_strategy
        /\ "options_spread" \in results.detected_patterns
        /\ {"finance:delta", "finance:theta"} \subseteq results.mathematical_concepts

\* The Iron Condor text has been analyzed and tested for a strategy.
C22_IronCondorReturned ==
    an_pc = "returned" /\ an_text = IronCondorText

\* C23: every strategy pattern that matches the text adds its category to
\* detected_patterns and sets a flag: quant_methods and derivatives_math
\* set mathematical_trading, intermarket and sentiment set market_analysis,
\* and no matched category leaves all flags false.
C23_MatchSetsMappedFlag ==
    an_pc # "call" =>
        \A c \in DOMAIN strategy_patterns :
            Search(strategy_patterns[c], Lower(an_text)) =>
                /\ c \in results.detected_patterns
                /\ c \in {"quant_methods", "derivatives_math"} =>
                       results.flags["mathematical_trading"]
                /\ c \in {"intermarket", "sentiment"} =>
                       results.flags["market_analysis"]
                /\ \E f \in Flags : results.flags[f]

\* C29: has_trading_strategy is false whenever no strategy pattern and no
\* technical indicator matches the text.
C29_NoStrategyWithoutPatternOrIndicator ==
    (/\ an_pc = "returned"
     /\ results.detected_patterns = {}
     /\ results.detected_indicators = {}) => ~has_strategy

(***************************************************************************)
(* Properties of the retried vectorize_options (SpecTicker)                *)
(***************************************************************************)
\* ceil(n / b)
CeilDiv(n, b) == (n + b - 1) \div b

\* The call of vectorize_options makes at most 3 attempts of at most
\* ceil(n / batch_size) upsert calls each, every attempt starts at the
\* first batch, and a failed upsert is followed by a new attempt or, at
\* the third attempt, by the exception leaving the call.
RetriedFromFirstBatch ==
    /\ v_attempt <= stop_after_attempt
    /\ Len(upsert_log) <= stop_after_attempt * CeilDiv(options_contracts, batch_size)
    /\ \A k \in DOMAIN upsert_log :
          (k = 1 \/ upsert_log[k - 1].attempt # upsert_log[k].attempt)
              => upsert_log[k].i = 0
    /\ \A k \in DOMAIN upsert_log :
          (k > 1 /\ upsert_log[k - 1].attempt = upsert_log[k].attempt)
              => /\ upsert_log[k - 1].ok
                 /\ upsert_log[k].i = upsert_log[k - 1].i + batch_size
    /\ (tk_pc = "vectorize" /\ upsert_log # <<>>)
          => \/ upsert_log[Len(upsert_log)].ok
             \/ upsert_log[Len(upsert_log)].attempt < v_attempt

\* C28 as stated: a call of vectorize_options terminates after at most 3
\* attempts, a failed upsert makes the whole function run again from the
\* first batch, the batches are sent again with the same ids, there are at
\* most 3 * ceil(n / batch_size) upsert calls, and after the third failed
\* attempt the call raises.
C28_RetriedWithSameIds ==
    /\ RetriedFromFirstBatch
    /\ \A k, m \in DOMAIN upsert_log :
          upsert_log[k].i = upsert_log[m].i => upsert_log[k].ids = upsert_log[m].ids

\* C28 amended: as above, and a batch is sent again with the same ids when
\* the attempt that sends it again read the same date.
C28_RetriedWithSameIdsOnSameDate ==
    /\ RetriedFromFirstBatch
    /\ \A k, m \in DOMAIN upsert_log :
          (upsert_log[k].i = upsert_log[m].i /\ upsert_log[k].day = upsert_log[m].day)
              => upsert_log[k].ids = upsert_log[m].ids

\* C28 witness: the first batch was accepted in each of three attempts, a
\* later batch failed each time, and the third failure left the call.
C28_ThirdAttemptRaised ==
    /\ tk_pc # "vectorize"
    /\ v_attempt = stop_after_attempt
    /\ \A a \in 1..stop_after_attempt :
          /\ \E k \in DOMAIN upsert_log :
                upsert_log[k].attempt = a /\ upsert_log[k].i = 0 /\ upsert_log[k].ok
          /\ \E k \in DOMAIN upsert_log :
                upsert_log[k].attempt = a /\ upsert_log[k].i > 0 /\ ~upsert_log[k].ok

(***************************************************************************)
(* Properties of runs for several symbols (SpecTickers)                    *)
(***************************************************************************)
\* C24: record groups against the same real-time index do not interfere:
\* the ids of the records of one symbol are distinct from the ids of the
\* records of any other symbol, and a record of a symbol stays in the index
\* until the cleanup of that symbol deletes it.
C24_GroupsDoNotInterfere ==
    [][\A r \in rt_vectors :
          /\ r \notin rt_vectors' => (tk_pc = "cleanup" /\ symbol = r.symbol)
          /\ \A q \in rt_vectors' : q.symbol # r.symbol => q.id # r.id]_vars

(***************************************************************************)
(* Properties of the report of process_pdfs (SpecIngest)                   *)
(***************************************************************************)
\* C25: in every report process_pdfs returns, successful_pdfs + failed_pdfs
\* = total_pdfs, and every PDF file of the directory is counted once, as
\* failed or as successful.
C25_EveryPdfCountedOnce ==
    ing_pc = "returned" =>
        /\ report.successful_pdfs + report.failed_pdfs = report.total_pdfs
        /\ \A d \in 1..num_pdfs :
              Cardinality({k \in DOMAIN failed_pdfs : failed_pdfs[k] = d}) <= 1
        /\ report.successful_pdfs =
              Cardinality({d \in 1..num_pdfs :
                              \A k \in DOMAIN failed_pdfs : failed_pdfs[k] # d})

\* C25 witness: a report that counts a failed document and a successful
\* one, after a chunk was skipped and a batch was rejected.
C25_ReportWithBothCounts ==
    /\ ing_pc = "returned"
    /\ report.failed_pdfs > 0
    /\ report.successful_pdfs > 0
    /\ skipped # {}
    /\ Rejected # {}

\* C26: a document is counted in successful_pdfs only if at least one of
\* its chunks was embedded and accepted by the index.
C26_SuccessfulOnlyIfStored ==
    ing_pc = "returned" =>
        \A d \in 1..num_pdfs :
            (\A k \in DOMAIN failed_pdfs : failed_pdfs[k] # d) =>
                \E k \in DOMAIN pdf_upsert_log :
                    pdf_upsert_log[k].doc = d /\ pdf_upsert_log[k].ok

(***************************************************************************)
(* Properties of the store of the server (SpecKb)                          *)
(***************************************************************************)
\* The client object exists, no initialization is in flight and there is
\* no handle: the first attempt ended without one.
AttemptLeftNoHandle ==
    /\ mvs_pc # None
    /\ mvs_index = None
    /\ \A t \in Tasks : task_state[t] \notin InFlight

\* C27: once the client object exists no call starts another
\* initialization attempt; a handle the first attempt left None stays None,
\* and every search called afterwards returns empty.
C27_NoSecondAttemptSearchEmpty ==
    [][/\ mvs_pc # None =>
            \A t \in Tasks : task_state[t] = "unborn" => task_state'[t] = "unborn"
       /\ AttemptLeftNoHandle =>
            /\ mvs_index' = None
            /\ \A c \in Queriers :
                  q_pc[c] \in {"idle", "returned"} =>
                      /\ q_pc'[c] \in {"idle", "returned"}
                      /\ q_result'[c] \in {q_result[c], "empty"}]_vars

(***************************************************************************)
(* Properties of fetch_all_contracts (SpecFetch)                           *)
(***************************************************************************)
\* C30: every date range is paginated on its own: the first page request
\* of a range carries no page token, and every following request carries
\* the token the previous page of the same range returned.
C30_RangesPaginatedIndependently ==
    fc_pc = "awaiting" =>
        IF fc_request.first
        THEN fc_request.page_token = None
        ELSE fc_request.page_token = next_token

====
